---- MODULE Spec2Model ----
(***************************************************************************)
(* TokenHub: the routing engine (tokenhub/routing.py) over the model       *)
(* registry (tokenhub/models.py) and the provider registry                 *)
(* (tokenhub/registry.py).                                                 *)
(*                                                                         *)
(* Units: cost_per_1k_tokens is a real in the source; here it is counted   *)
(* in whole cost units, which keeps every comparison the code makes.       *)
(* Optional[T] is a sequence: <<>> is Python's None, <<v>> is the value v. *)
(***************************************************************************)
EXTENDS Integers, Sequences, FiniteSets, TLC

VARIABLES
    models,      \* ModelRegistry._models: entries [key, val] in insertion order
    providers,   \* ProviderRegistry._providers: the registered provider names
    op,          \* the public operation in progress or last finished
    pc,          \* its position: "idle", "call1", "call2", "done"
    request,     \* the caller's ChatRequest object (mutated in place)
    request0,    \* that ChatRequest as it was when the operation was entered
    policy,      \* the RoutingPolicy of the operation
    selected,    \* select_model's return value (Optional[ModelMetadata])
    escalated,   \* _escalate_request's escalated_model (Optional[ModelMetadata])
    calls,       \* the provider.chat_completion invocations of the operation
    outcome,     \* what the operation returned or raised
    opc,         \* OrchestrationEngine.execute: "idle", the step whose routing
                 \* call is in progress ("simple", "plan", "critique",
                 \* "refine"), or "done"
    orequest,    \* execute's request argument
    config,      \* execute's config, the default filled in
    plan_response,         \* _execute_adversarial's local of that name
    critique_response,     \* _execute_adversarial's local of that name
    refinement_responses,  \* _execute_adversarial's local of that name
    final_response,        \* _execute_adversarial's local of that name
    rlog,        \* the execute_with_routing calls of the execute in progress
    oresult,     \* what execute returned or raised
    summary,     \* what create_adversarial_summary returned for that result
    handed,      \* which object execute hands to execute_with_routing, and
                 \* routing's `request` therefore is: the "caller"'s own
                 \* ChatRequest or one "derived" from it
    config0,     \* execute's config argument (Optional)
    picks,       \* what successive select_model calls on one request and
                 \* policy returned
    target,      \* a second ModelRegistry's _models, the one imported into
    vault,       \* ProviderRegistry.vault: None, or Some(SecureVault._data)
    lastop,      \* the registry operation last called, with its arguments
    before,      \* the registries and the vault as they were when it was called
    ret,         \* what it returned or raised
    thread,      \* which of two threads calling execute is running: 1 or 2;
                 \* the variables of rvars and ovars are its locals
    parked,      \* the locals of the thread that is not running
    alone,       \* what the two calls returned or raised when each ran alone
    jobs,        \* the arguments of the two execute calls
    failing,     \* the providers whose chat_completion raises
    mixed,       \* a thread switch has happened with both calls in progress
    vlog,        \* the operations called on the SecureVault, in order
    db           \* PersistenceManager's database: the vault_data row and
                 \* the rows of the models table

\* the routing engine's variables
rvars == <<op, pc, request, request0, policy, selected, escalated, calls,
           outcome>>

\* the orchestration engine's variables
ovars == <<opc, orequest, config, plan_response, critique_response,
           refinement_responses, final_response, rlog, oresult, summary,
           handed, config0>>

\* the variables of the registries' own operations
xvars == <<picks, target, vault, lastop, before, ret,
           thread, parked, alone, jobs, failing, mixed, vlog, db>>

\* the variables of the vault's callers and of the persistence layer
svars == <<vlog, db>>

\* the variables of two threads calling execute
cvars == <<thread, parked, alone, jobs, failing, mixed>>

vars == <<models, providers, rvars, ovars, xvars>>

-----------------------------------------------------------------------------
(* Python values *)

None == <<>>

Some(v) == <<v>>

\* bool(x) of an Optional[int] / Optional[float]: None and 0 are falsy
TruthyNum(o) == o # None /\ o[1] # 0

\* bool(x) of an Optional[str]: None and "" are falsy
TruthyStr(o) == o # None /\ o[1] # ""

\* `o or 0` for an Optional[int]
OrZero(o) == IF TruthyNum(o) THEN o[1] ELSE 0

Max(a, b) == IF a >= b THEN a ELSE b

-----------------------------------------------------------------------------
(* Bounds of the model *)

\* the catalog holds at most MaxModels models
MaxModels == 2

NamePool == <<"m1", "m2", "m3", "m4">>

ProviderNames == {"p1", "p2"}

Costs == {0, 2}

ContextSizes == {1, 2}

Weights == {1, 2}

CostCeilings == {None, Some(0), Some(1)}

MinContexts == {None, Some(2)}

\* message contents, by length: len(content) is all the routing engine reads
Text(n) == [i \in 1..n |-> "x"]

MaxTokens == {None, Some(1)}

\* no pin, and a pin to the name of the second model of the pool
Pins == {None, Some("m2")}

\* what a provider's chat_completion raises, if it raises: each raise is an
\* exception object of its own, named here after the call that raised it
ProviderError(k) == IF k = 1 THEN "e1" ELSE "e2"

ProviderErrors == {ProviderError(1), ProviderError(2)}

\* what a provider's chat_completion can answer
ReplyContents == {"r1"}

-----------------------------------------------------------------------------
(* tokenhub/models.py *)

ModelMetadata(n, p, c, s, w) ==
    [name |-> n, provider |-> p, cost_per_1k_tokens |-> c,
     context_size |-> s, weight |-> w]

\* ModelRegistry.list_models(): the values of _models in insertion order
list_models(ms) == [i \in 1..Len(ms) |-> ms[i].val]

\* the provider of the i-th model of the pool: consecutive models live on
\* different providers, so every combination of "this model's provider is
\* registered" arises from the directories below
HomeProvider(i) == IF i % 2 = 1 THEN "p1" ELSE "p2"

\* the catalogs register_model can build from the pool: entry i is keyed by
\* its record's name, NamePool[i]
Catalogs ==
    UNION { { [i \in 1..n |->
                  [key |-> NamePool[i],
                   val |-> ModelMetadata(NamePool[i], HomeProvider(i),
                                         f[i].cost, f[i].size, f[i].weight)]]
              : f \in [1..n -> [cost : Costs, size : ContextSizes,
                                 weight : Weights]] }
            : n \in 0..MaxModels }

-----------------------------------------------------------------------------
(* tokenhub/registry.py *)

\* a slip: a provider object is handed out for a name that was never added
get_provider_unchecked(ps, name) == Some(name)

\* ProviderRegistry.get_provider(name): None when name is not registered
get_provider(ps, name) == IF name \in ps THEN Some(name) ELSE None

Directories == SUBSET ProviderNames

-----------------------------------------------------------------------------
(* tokenhub/providers.py *)

ChatMessage(r, c) == [role |-> r, content |-> c]

ChatRequest(msgs, m, mt, t) ==
    [messages |-> msgs, model |-> m, max_tokens |-> mt, temperature |-> t]

ChatResponse(c, m) == [content |-> c, model |-> m]

RoutingPolicy(mc, mcs, phw, ae) ==
    [max_cost_per_1k_tokens |-> mc, min_context_size |-> mcs,
     prefer_higher_weight |-> phw, allow_escalation |-> ae]

\* one short message (3 characters: no token), and a short one followed by a
\* longer one (3 + 5 characters: 2 tokens, where 3 // 4 + 5 // 4 is 1)
MessageLists ==
    { <<ChatMessage("user", Text(3))>>,
      <<ChatMessage("user", Text(3)), ChatMessage("user", Text(5))>> }

Requests ==
    { ChatRequest(msgs, m, mt, None) :
        msgs \in MessageLists,
        m \in Pins, mt \in MaxTokens }

Policies ==
    { RoutingPolicy(mc, mcs, phw, ae) :
        mc \in CostCeilings, mcs \in MinContexts,
        phw \in BOOLEAN, ae \in BOOLEAN }

-----------------------------------------------------------------------------
(* tokenhub/routing.py: select_model *)

RECURSIVE SumLen(_)
\* sum(len(msg.content) for msg in request.messages)
SumLen(msgs) ==
    IF msgs = <<>> THEN 0 ELSE Len(Head(msgs).content) + SumLen(Tail(msgs))

\* a slip: every message is divided by 4 on its own
estimate_context_size_per_message(req) ==
    LET PerMessage[i \in 0..Len(req.messages)] ==
            IF i = 0 THEN 0
            ELSE PerMessage[i - 1] + (Len(req.messages[i].content) \div 4)
        estimated_tokens == PerMessage[Len(req.messages)]
    IN  IF TruthyNum(req.max_tokens)
        THEN estimated_tokens + req.max_tokens[1]
        ELSE estimated_tokens

\* RoutingEngine._estimate_context_size
estimate_context_size(req) ==
    LET total_chars == SumLen(req.messages)
        estimated_tokens == total_chars \div 4
    IN  IF TruthyNum(req.max_tokens)
        THEN estimated_tokens + req.max_tokens[1]
        ELSE estimated_tokens

\* a slip: the filter looks at the policy's minimum only, not at the estimate
ContextFilterPolicyOnly(candidates, pol, estimated_context) ==
    IF TruthyNum(pol.min_context_size)
    THEN LET Keep(m) == m.context_size >= pol.min_context_size[1]
         IN  SelectSeq(candidates, Keep)
    ELSE candidates

\* select_model, "Filter by context size"
ContextFilter(candidates, pol, estimated_context) ==
    IF TruthyNum(pol.min_context_size) \/ estimated_context # 0
    THEN LET required_context ==
                 Max(OrZero(pol.min_context_size), estimated_context)
             Keep(m) == m.context_size >= required_context
         IN  SelectSeq(candidates, Keep)
    ELSE candidates

\* select_model, "Filter by cost"
CostFilter(candidates, pol) ==
    IF TruthyNum(pol.max_cost_per_1k_tokens)
    THEN LET Keep(m) == m.cost_per_1k_tokens <= pol.max_cost_per_1k_tokens[1]
         IN  SelectSeq(candidates, Keep)
    ELSE candidates

\* a slip: the descending sort is an ascending sort read backwards, which
\* turns the order of equal elements around
InsertAscendingReversed(sorted, x, field, reverse) ==
    LET Stays(y) == IF reverse THEN y[field] > x[field] ELSE y[field] <= x[field]
        k == Cardinality({i \in 1..Len(sorted) : Stays(sorted[i])})
    IN  SubSeq(sorted, 1, k) \o <<x>> \o SubSeq(sorted, k + 1, Len(sorted))

\* where list.sort puts x in an already sorted list: behind every element
\* that does not sort after it (the sort is stable)
InsertStable(sorted, x, field, reverse) ==
    LET Stays(y) == IF reverse THEN y[field] >= x[field] ELSE y[field] <= x[field]
        k == Cardinality({i \in 1..Len(sorted) : Stays(sorted[i])})
    IN  SubSeq(sorted, 1, k) \o <<x>> \o SubSeq(sorted, k + 1, Len(sorted))

RECURSIVE SortBy(_, _, _)
\* list.sort(key=lambda m: m.<field>, reverse=<reverse>)
SortBy(s, field, reverse) ==
    IF s = <<>> THEN <<>>
    ELSE InsertStable(SortBy(SubSeq(s, 1, Len(s) - 1), field, reverse),
                      s[Len(s)], field, reverse)

\* select_model, "Sort by weight if preferred" / "Sort by cost"
SortCandidates(candidates, pol) ==
    IF pol.prefer_higher_weight
    THEN SortBy(candidates, "weight", TRUE)
    ELSE SortBy(candidates, "cost_per_1k_tokens", FALSE)

\* a slip: ties are broken by turns, the k-th call taking the k-th candidate
select_model_by_turns(ms, req, pol) ==
    LET estimated_context == estimate_context_size(req)
        candidates == CostFilter(ContextFilter(list_models(ms), pol,
                                               estimated_context), pol)
    IN  IF candidates = <<>> THEN None
        ELSE Some(SortCandidates(candidates, pol)
                      [(Len(picks) % Len(candidates)) + 1])

\* RoutingEngine.select_model(request, policy)
select_model(ms, req, pol) ==
    LET estimated_context == estimate_context_size(req)
        candidates == CostFilter(ContextFilter(list_models(ms), pol,
                                               estimated_context), pol)
    IN  IF candidates = <<>> THEN None
        ELSE Some(SortCandidates(candidates, pol)[1])

-----------------------------------------------------------------------------
(* outcomes *)

NoOutcome == [status |-> "none", error |-> "", original |-> "",
              response |-> None]

Returned(r) == [status |-> "returned", error |-> "", original |-> "",
                response |-> Some(r)]

\* raise ValueError(...) of the routing engine; `original` is the str(error)
\* the message embeds
Raised(kind, orig) == [status |-> "raised", error |-> kind, original |-> orig,
                       response |-> None]

\* one provider.chat_completion(request) invocation: the provider invoked and
\* the model field of the request object it is handed; the other fields of
\* the request are those of `request`, which routing never writes
Call(p, req) == [provider |-> p, model |-> req.model, result |-> "pending",
                 error |-> ""]

Settle(cs, res, e) ==
    [cs EXCEPT ![Len(cs)] = [@ EXCEPT !.result = res, !.error = e]]

NoRequest == ChatRequest(<<>>, None, None, None)

NoPolicy == RoutingPolicy(None, None, TRUE, TRUE)

\* tokenhub/orchestration.py: OrchestrationConfig
OrchestrationConfig(mo, pm, cm, mri, er) ==
    [mode |-> mo, planner_model |-> pm, critic_model |-> cm,
     max_refinement_iterations |-> mri, enable_refinement |-> er]

\* OrchestrationConfig(): the dataclass defaults
DefaultConfig == OrchestrationConfig("simple", None, None, 1, FALSE)

NoResult == [status |-> "none", error |-> "", original |-> "", value |-> None]

-----------------------------------------------------------------------------
\* no routing call and no orchestration in progress
RoutingIdle ==
    /\ op = "none"
    /\ pc = "idle"
    /\ request = NoRequest
    /\ request0 = NoRequest
    /\ policy = NoPolicy
    /\ selected = None
    /\ escalated = None
    /\ calls = <<>>
    /\ outcome = NoOutcome

OrchestrationIdle ==
    /\ opc = "idle"
    /\ orequest = NoRequest
    /\ config = DefaultConfig
    /\ plan_response = None
    /\ critique_response = None
    /\ refinement_responses = <<>>
    /\ final_response = None
    /\ rlog = <<>>
    /\ oresult = NoResult
    /\ summary = None
    /\ handed = "none"
    /\ config0 = None

\* the locals of a thread that is not in a call
IdleLocals ==
    [op |-> "none", pc |-> "idle", request |-> NoRequest,
     request0 |-> NoRequest, policy |-> NoPolicy, selected |-> None,
     escalated |-> None, calls |-> <<>>, outcome |-> NoOutcome,
     opc |-> "idle", orequest |-> NoRequest, config |-> DefaultConfig,
     plan_response |-> None, critique_response |-> None,
     refinement_responses |-> <<>>, final_response |-> None, rlog |-> <<>>,
     oresult |-> NoResult, summary |-> None, handed |-> "none",
     config0 |-> None]

\* PersistenceManager._init_database(): the tables are there and empty
EmptyDatabase == [vault_data |-> None, models |-> {}]

\* no vault operation has been called and nothing is persisted
StoresIdle ==
    /\ vlog = <<>>
    /\ db = EmptyDatabase

\* one thread, which has not called execute
ThreadsIdle ==
    /\ thread = 1
    /\ parked = IdleLocals
    /\ alone = <<>>
    /\ jobs = <<>>
    /\ failing = {}
    /\ mixed = FALSE

NoOp == [name |-> "none", arg |-> <<>>]

NoReturn == [status |-> "none", value |-> <<>>]

\* the operation called last and its argument
Op(name, arg) == [name |-> name, arg |-> arg]

\* what the operation called last returned
Gave(value) == [status |-> "returned", value |-> value]

\* the operation called last raised ValueError, and at which raise
Failed(at) == [status |-> "raised", value |-> at]

\* no registry operation has been called
RegistriesIdle ==
    /\ picks = <<>>
    /\ target = <<>>
    /\ vault = None
    /\ lastop = NoOp
    /\ before = NoOp
    /\ ret = NoReturn
    /\ ThreadsIdle
    /\ StoresIdle

Init ==
    /\ models \in Catalogs
    /\ providers \in Directories
    /\ RoutingIdle
    /\ OrchestrationIdle
    /\ RegistriesIdle

\* a slip: the selected model's name is written over a pinned model as well
FillModelAlways(req, selected_model) ==
    [req EXCEPT !.model = Some(selected_model.name)]

\* execute_with_routing, "Set model in request if not already set"
FillModel(req, selected_model) ==
    IF ~TruthyStr(req.model)
    THEN [req EXCEPT !.model = Some(selected_model.name)]
    ELSE req

\* RoutingEngine.execute_with_routing(request, policy), up to the first
\* provider.chat_completion(request)
RoutingCall(req, pol) ==
    /\ op' = "execute_with_routing"
    /\ request0' = req
    /\ policy' = pol
    /\ escalated' = None
    /\ selected' = select_model(models, req, pol)
    /\ IF selected' = None
       THEN /\ request' = req
            /\ calls' = <<>>
            /\ outcome' = Raised("ModelNotFound", "")
            /\ pc' = "done"
       ELSE /\ request' = FillModel(req, selected'[1])
            /\ LET provider == get_provider(providers, selected'[1].provider)
               IN  IF provider = None
                   THEN /\ calls' = <<>>
                        /\ outcome' = Raised("ProviderNotFound", "")
                        /\ pc' = "done"
                   ELSE /\ calls' = <<Call(provider[1], request')>>
                        /\ outcome' = NoOutcome
                        /\ pc' = "call1"
    /\ UNCHANGED <<models, providers>>

\* RoutingEngine.execute_with_routing(request, policy), called on the engine
\* directly
ExecuteWithRouting(req, pol) ==
    /\ pc = "idle"
    /\ opc = "idle"
    /\ RoutingCall(req, pol)
    /\ UNCHANGED <<ovars, xvars>>

\* the first provider call returns: execute_with_routing returns its response
Call1Returns(content) ==
    /\ pc = "call1"
    /\ calls' = Settle(calls, "returned", "")
    /\ outcome' = Returned(ChatResponse(content, request.model))
    /\ pc' = "done"
    /\ UNCHANGED <<models, providers, op, request, request0, policy, selected,
                   escalated, ovars, xvars>>

\* a slip: >= where the code has >
EscalationCandidatesLoose(candidates, failed_model) ==
    LET Keep(m) == /\ (m.weight >= failed_model.weight
                       \/ m.context_size >= failed_model.context_size)
                   /\ m.name # failed_model.name
    IN  SelectSeq(candidates, Keep)

\* _escalate_request: "Get models with higher weight or larger context"
EscalationCandidates(candidates, failed_model) ==
    LET Keep(m) == /\ (m.weight > failed_model.weight
                       \/ m.context_size > failed_model.context_size)
                   /\ m.name # failed_model.name
    IN  SelectSeq(candidates, Keep)

\* _escalate_request: the cost filter
EscalationCostFilter(candidates, pol) ==
    IF TruthyNum(pol.max_cost_per_1k_tokens)
    THEN LET Keep(m) == m.cost_per_1k_tokens <= pol.max_cost_per_1k_tokens[1]
         IN  SelectSeq(candidates, Keep)
    ELSE candidates

\* a slip: the model field is written only when it is empty, as it is before
\* the first call
EscalatedRequestKeepsModel(req, escalated_model) ==
    IF ~TruthyStr(req.model)
    THEN [req EXCEPT !.model = Some(escalated_model.name)]
    ELSE req

\* _escalate_request: request.model = escalated_model.name
EscalatedRequest(req, escalated_model) ==
    [req EXCEPT !.model = Some(escalated_model.name)]

\* RoutingEngine._escalate_request(request, failed_model, policy, error), up
\* to the escalated provider.chat_completion(request)
EscalateRequest(failed_model, error) ==
    LET candidates ==
            EscalationCostFilter(
                EscalationCandidates(list_models(models), failed_model), policy)
    IN  IF candidates = <<>>
        THEN /\ escalated' = None
             /\ request' = request
             /\ calls' = Settle(calls, "raised", error)
             /\ outcome' = Raised("EscalationExhausted", error)
             /\ pc' = "done"
        ELSE /\ escalated' = Some(SortBy(candidates, "weight", TRUE)[1])
             /\ request' = EscalatedRequest(request, escalated'[1])
             /\ LET provider == get_provider(providers, escalated'[1].provider)
                IN  IF provider = None
                    THEN /\ calls' = Settle(calls, "raised", error)
                         /\ outcome' = Raised("ProviderNotFound", "")
                         /\ pc' = "done"
                    ELSE /\ calls' = Append(Settle(calls, "raised", error),
                                            Call(provider[1], request'))
                         /\ outcome' = NoOutcome
                         /\ pc' = "call2"

\* a slip: escalation is tried whatever the policy says
Call1RaisesAlwaysEscalates ==
    /\ pc = "call1"
    /\ EscalateRequest(selected[1], ProviderError(1))
    /\ UNCHANGED <<models, providers, op, request0, policy, selected, ovars, xvars>>

\* the first provider call raises: "Try escalation if allowed", else re-raise
Call1Raises ==
    /\ pc = "call1"
    /\ IF policy.allow_escalation
       THEN EscalateRequest(selected[1], ProviderError(1))
       ELSE /\ calls' = Settle(calls, "raised", ProviderError(1))
            /\ outcome' = Raised(ProviderError(1), "")
            /\ pc' = "done"
            /\ UNCHANGED <<request, escalated>>
    /\ UNCHANGED <<models, providers, op, request0, policy, selected, ovars, xvars>>

\* the escalated provider call returns: its response is the result
Call2Returns(content) ==
    /\ pc = "call2"
    /\ calls' = Settle(calls, "returned", "")
    /\ outcome' = Returned(ChatResponse(content, request.model))
    /\ pc' = "done"
    /\ UNCHANGED <<models, providers, op, request, request0, policy, selected,
                   escalated, ovars, xvars>>

\* a slip: the escalated call sits in a try of its own and escalates again
Call2RaisesRetries ==
    /\ pc = "call2"
    /\ EscalateRequest(escalated[1], ProviderError(2))
    /\ UNCHANGED <<models, providers, op, request0, policy, selected, ovars, xvars>>

\* the escalated provider call raises: the failure propagates
Call2Raises ==
    /\ pc = "call2"
    /\ calls' = Settle(calls, "raised", ProviderError(2))
    /\ outcome' = Raised(ProviderError(2), "")
    /\ pc' = "done"
    /\ UNCHANGED <<models, providers, op, request, request0, policy, selected,
                   escalated, ovars, xvars>>

\* the caller takes the result; the engine is ready for the next call
Finish ==
    /\ pc = "done"
    /\ opc = "idle"
    /\ op' = "none"
    /\ pc' = "idle"
    /\ request' = NoRequest
    /\ request0' = NoRequest
    /\ policy' = NoPolicy
    /\ selected' = None
    /\ escalated' = None
    /\ calls' = <<>>
    /\ outcome' = NoOutcome
    /\ UNCHANGED <<models, providers, ovars, xvars>>

Next ==
    \/ \E req \in Requests, pol \in Policies : ExecuteWithRouting(req, pol)
    \/ \E content \in ReplyContents : Call1Returns(content)
    \/ Call1Raises
    \/ \E content \in ReplyContents : Call2Returns(content)
    \/ Call2Raises
    \/ Finish

Spec == Init /\ [][Next]_vars

-----------------------------------------------------------------------------
(* tokenhub/routing.py: select_model called on the engine directly *)

\* select_model is called at most MaxSelects times on one request and policy
MaxSelects == 3

\* RoutingEngine.select_model(request, policy): a first call, or one more
\* call on the same request object and policy
SelectModel(req, pol) ==
    /\ pc = "idle"
    /\ opc = "idle"
    /\ Len(picks) < MaxSelects
    /\ picks # <<>> => req = request /\ pol = policy
    /\ op' = "select_model"
    /\ request0' = IF picks = <<>> THEN req ELSE request0
    /\ request' = req
    /\ policy' = pol
    /\ selected' = select_model(models, req, pol)
    /\ picks' = Append(picks, selected')
    /\ UNCHANGED <<models, providers, pc, escalated, calls, outcome, ovars,
                   target, vault, lastop, before, ret, cvars, svars>>

\* the caller is done with this request and policy
ForgetPicks ==
    /\ op = "select_model"
    /\ op' = "none"
    /\ request0' = NoRequest
    /\ request' = NoRequest
    /\ policy' = NoPolicy
    /\ selected' = None
    /\ picks' = <<>>
    /\ UNCHANGED <<models, providers, pc, escalated, calls, outcome, ovars,
                   target, vault, lastop, before, ret, cvars, svars>>

SelectInit ==
    /\ models \in Catalogs
    /\ providers = ProviderNames
    /\ RoutingIdle
    /\ OrchestrationIdle
    /\ RegistriesIdle

SelectNext ==
    \/ \E req \in Requests, pol \in Policies : SelectModel(req, pol)
    \/ ForgetPicks

SelectSpec == SelectInit /\ [][SelectNext]_vars

-----------------------------------------------------------------------------
(* tokenhub/routing.py: the context estimate and the context filter of    *)
(* select_model, applied to requests and policies with zeros in them      *)

\* message lists: none, and one or two messages of 0 to 8 characters
EstimateMessageLists ==
    {<<>>}
    \cup { <<ChatMessage("user", Text(n))>> : n \in {0, 3, 4, 7} }
    \cup { <<ChatMessage("user", Text(a)), ChatMessage("user", Text(b))>> :
             a \in {3, 6}, b \in {1, 5} }

EstimateRequests ==
    { ChatRequest(msgs, None, mt, None) :
        msgs \in EstimateMessageLists, mt \in {None, Some(0), Some(1)} }

EstimatePolicies ==
    { RoutingPolicy(None, mcs, TRUE, TRUE) : mcs \in {None, Some(0), Some(2)} }

\* three models, of context sizes 1, 2 and 3
EstimateCatalog ==
    [i \in 1..3 |-> [key |-> NamePool[i],
                     val |-> ModelMetadata(NamePool[i], HomeProvider(i), 0, i, 1)]]

\* select_model up to the end of "Filter by context size": the estimate and
\* the candidates left
EstimateAndFilter ==
    /\ lastop = NoOp
    /\ lastop' = Op("select_model", <<>>)
    /\ ret' = Gave([estimated |-> estimate_context_size(request),
                    candidates |->
                        ContextFilter(list_models(models), policy,
                                      estimate_context_size(request))])
    /\ UNCHANGED <<models, providers, rvars, ovars, picks, target, vault,
                   before, cvars, svars>>

\* a request and a policy are at hand
EstimateInit ==
    /\ models = EstimateCatalog
    /\ providers = ProviderNames
    /\ op = "none"
    /\ pc = "idle"
    /\ request \in EstimateRequests
    /\ request0 = request
    /\ policy \in EstimatePolicies
    /\ selected = None
    /\ escalated = None
    /\ calls = <<>>
    /\ outcome = NoOutcome
    /\ OrchestrationIdle
    /\ RegistriesIdle

EstimateNext == EstimateAndFilter

EstimateSpec == EstimateInit /\ [][EstimateNext]_vars

-----------------------------------------------------------------------------
(* tokenhub/models.py: the operations of ModelRegistry *)

\* a Python dict is the sequence of its items in insertion order
Keys(d) == { d[i].key : i \in 1..Len(d) }

IndexOf(d, k) == CHOOSE i \in 1..Len(d) : d[i].key = k

\* d.get(k)
DictGet(d, k) == IF k \in Keys(d) THEN Some(d[IndexOf(d, k)].val) ELSE None

\* d[k] = v: an existing key keeps its place, a new key goes last
DictSet(d, k, v) ==
    IF k \in Keys(d)
    THEN [d EXCEPT ![IndexOf(d, k)].val = v]
    ELSE Append(d, [key |-> k, val |-> v])

\* del d[k]
DictDel(d, k) == SelectSeq(d, LAMBDA e : e.key # k)

\* ModelMetadata.to_dict(): asdict, the fields by name in declaration order
to_dict(md) ==
    << [key |-> "name", val |-> md.name],
       [key |-> "provider", val |-> md.provider],
       [key |-> "cost_per_1k_tokens", val |-> md.cost_per_1k_tokens],
       [key |-> "context_size", val |-> md.context_size],
       [key |-> "weight", val |-> md.weight] >>

\* ModelMetadata.from_dict(data): cls(**data), each field from its keyword
from_dict(data) ==
    ModelMetadata(DictGet(data, "name")[1], DictGet(data, "provider")[1],
                  DictGet(data, "cost_per_1k_tokens")[1],
                  DictGet(data, "context_size")[1],
                  DictGet(data, "weight")[1])

\* ModelRegistry.register_model(metadata)
register_model(ms, metadata) == DictSet(ms, metadata.name, metadata)

\* ModelRegistry.get_model(name)
get_model(ms, name) == DictGet(ms, name)

\* a slip: remove_model reports True whether or not the name was there
remove_model_always_true(ms, name) ==
    [models |-> DictDel(ms, name), value |-> TRUE]

\* ModelRegistry.remove_model(name): the registry afterwards and the value
\* returned
remove_model(ms, name) ==
    IF name \in Keys(ms)
    THEN [models |-> DictDel(ms, name), value |-> TRUE]
    ELSE [models |-> ms, value |-> FALSE]

\* ModelRegistry.export_models()
export_models(ms) ==
    [i \in 1..Len(ms) |-> [key |-> ms[i].key, val |-> to_dict(ms[i].val)]]

\* a slip: import_models starts from an empty registry
import_models_replacing(ms, data) ==
    [i \in 1..Len(data) |-> [key |-> data[i].key, val |-> from_dict(data[i].val)]]

RECURSIVE import_models(_, _)
\* ModelRegistry.import_models(data)
import_models(ms, data) ==
    IF data = <<>> THEN ms
    ELSE import_models(DictSet(ms, Head(data).key, from_dict(Head(data).val)),
                       Tail(data))

\* the names the registries' callers use
RegistryNames == {"m1", "m2"}

\* the provider a caller names for a model
ProviderOf(n) == IF n = "m1" THEN "p1" ELSE "p2"

\* the records callers register: the name and the cost vary
RegistryRecords ==
    { ModelMetadata(n, ProviderOf(n), c, 1, 1) : n \in RegistryNames, c \in Costs }

\* ModelRegistry._initialize_default_models(): a cheap and a dear model
DefaultCatalog ==
    << [key |-> "m1", val |-> ModelMetadata("m1", "p1", 0, 1, 1)],
       [key |-> "m2", val |-> ModelMetadata("m2", "p2", 2, 1, 1)] >>

\* the dicts handed to import_models: no item, one item with any record's
\* dict under any key, two items with the dicts of records of cost 0 under
\* either order of the keys
ImportData ==
    {<<>>}
    \cup { << [key |-> k, val |-> to_dict(r)] >> :
             k \in RegistryNames, r \in RegistryRecords }
    \cup UNION { { << [key |-> k1, val |-> to_dict(ModelMetadata(n1, ProviderOf(n1), 0, 1, 1))],
                      [key |-> k2, val |-> to_dict(ModelMetadata(n2, ProviderOf(n2), 0, 1, 1))] >> :
                     k2 \in RegistryNames \ {k1},
                     n1 \in RegistryNames, n2 \in RegistryNames }
                 : k1 \in RegistryNames }

\* the registries as they are before an operation
RegistriesNow == [models |-> models, target |-> target]

RegisterModel(metadata) ==
    /\ models' = register_model(models, metadata)
    /\ lastop' = Op("register_model", metadata)
    /\ before' = RegistriesNow
    /\ ret' = Gave(None)
    /\ UNCHANGED <<providers, rvars, ovars, picks, target, vault, cvars, svars>>

RemoveModel(name) ==
    /\ models' = remove_model(models, name).models
    /\ lastop' = Op("remove_model", name)
    /\ before' = RegistriesNow
    /\ ret' = Gave(remove_model(models, name).value)
    /\ UNCHANGED <<providers, rvars, ovars, picks, target, vault, cvars, svars>>

ImportModels(data) ==
    /\ models' = import_models(models, data)
    /\ lastop' = Op("import_models", data)
    /\ before' = RegistriesNow
    /\ ret' = Gave(None)
    /\ UNCHANGED <<providers, rvars, ovars, picks, target, vault, cvars, svars>>

\* other.import_models(registry.export_models()), other being a second
\* registry
ImportExported ==
    /\ target' = import_models(target, export_models(models))
    /\ lastop' = Op("import_exported", export_models(models))
    /\ before' = RegistriesNow
    /\ ret' = Gave(None)
    /\ UNCHANGED <<models, providers, rvars, ovars, picks, vault, cvars, svars>>

\* two registries as constructed
ModelInit ==
    /\ models = DefaultCatalog
    /\ target = DefaultCatalog
    /\ providers = ProviderNames
    /\ RoutingIdle
    /\ OrchestrationIdle
    /\ picks = <<>>
    /\ vault = None
    /\ lastop = NoOp
    /\ before = NoOp
    /\ ret = NoReturn
    /\ ThreadsIdle
    /\ StoresIdle

ModelNext ==
    \/ \E metadata \in RegistryRecords : RegisterModel(metadata)
    \/ \E name \in RegistryNames : RemoveModel(name)
    \/ \E data \in ImportData : ImportModels(data)
    \/ ImportExported

ModelSpec == ModelInit /\ [][ModelNext]_vars

-----------------------------------------------------------------------------
(* tokenhub/vault.py and the operations of ProviderRegistry *)

\* AES works on blocks of 16 bytes
BlockSize == 16

\* a str is the sequence of its characters' code points; the UTF-8 bytes of
\* one character (code points below 2048)
Utf8(c) == IF c < 128 THEN <<c>> ELSE <<192 + (c \div 64), 128 + (c % 64)>>

RECURSIVE StrEncode(_)
\* str.encode()
StrEncode(s) ==
    IF s = <<>> THEN <<>> ELSE Utf8(Head(s)) \o StrEncode(Tail(s))

RECURSIVE BytesDecode(_)
\* bytes.decode()
BytesDecode(b) ==
    IF b = <<>> THEN <<>>
    ELSE IF b[1] < 128 THEN <<b[1]>> \o BytesDecode(Tail(b))
    ELSE <<(b[1] - 192) * 64 + (b[2] - 128)>> \o BytesDecode(Tail(Tail(b)))

\* _encrypt: the plaintext with its padding, the padding length counted in
\* characters and each padding character holding it, as bytes
PaddedPlaintext(plaintext) ==
    LET padding_length == BlockSize - (Len(plaintext) % BlockSize)
    IN  StrEncode(plaintext \o [i \in 1..padding_length |-> padding_length])

\* _encrypt: CBC takes whole blocks only, encryptor.finalize() raises
\* ValueError on anything else
EncryptRaises(plaintext) == Len(PaddedPlaintext(plaintext)) % BlockSize # 0

\* SecureVault._encrypt(plaintext) where it does not raise: the padded bytes
\* under the vault's key and a fresh iv (the cipher itself is a bijection)
Encrypt(plaintext, iv) ==
    [iv |-> iv, ciphertext |-> PaddedPlaintext(plaintext)]

\* SecureVault._decrypt(encrypted): the padding, as long as the last byte
\* says, is cut off and the rest decoded
Decrypt(encrypted) ==
    LET padded_plaintext == encrypted.ciphertext
        padding_length == padded_plaintext[Len(padded_plaintext)]
    IN  BytesDecode(SubSeq(padded_plaintext, 1,
                           Len(padded_plaintext) - padding_length))

\* SecureVault.store(key, value) on the vault's _data: nothing is assigned
\* when _encrypt raises
vault_store(data, key, value, iv) ==
    IF EncryptRaises(value) THEN data
    ELSE DictSet(data, key, Encrypt(value, iv))

\* SecureVault.retrieve(key)
vault_retrieve(data, key) ==
    IF DictGet(data, key) = None THEN None
    ELSE Some(Decrypt(DictGet(data, key)[1]))

\* SecureVault.delete(key): the data afterwards
vault_delete(data, key) == DictDel(data, key)

\* f"provider_{name}_api_key"
VaultKey(name) == <<"provider_", name, "_api_key">>

\* ProviderRegistry._provider_classes as constructed
ProviderClasses == {"mock"}

ProviderTypes == {"mock", "other"}

\* the API key a caller passes: none, "k", or the one character U+00E9
ApiKeys == {None, Some(<<107>>), Some(<<233>>)}

\* os.getenv(f"{name.upper()}_API_KEY")
EnvKeys == {None, Some(<<101>>)}

\* os.urandom(16)
IVs == {"iv"}

\* the key add_provider works with: the argument, else the vault's, else
\* the environment's
ResolveKey(v, name, api_key, env) ==
    LET from_vault == IF api_key = None /\ v # None
                      THEN vault_retrieve(v[1], VaultKey(name))
                      ELSE api_key
    IN  IF from_vault = None THEN env ELSE from_vault

RegistryNow == [providers |-> providers, vault |-> vault]

\* ProviderRegistry.add_provider(name, provider_type, api_key, store_in_vault)
AddProvider(name, provider_type, api_key, store_in_vault, env, iv) ==
    LET key == ResolveKey(vault, name, api_key, env)
    IN  /\ lastop' = Op("add_provider",
                        [name |-> name, provider_type |-> provider_type,
                         api_key |-> api_key, store_in_vault |-> store_in_vault])
        /\ before' = RegistryNow
        /\ IF key = None
           THEN /\ ret' = Failed("NoApiKey")
                /\ UNCHANGED <<providers, vault>>
           ELSE IF store_in_vault /\ vault # None /\ EncryptRaises(key[1])
           THEN /\ ret' = Failed("EncryptFailed")
                /\ UNCHANGED <<providers, vault>>
           ELSE /\ vault' = IF store_in_vault /\ vault # None
                            THEN Some(vault_store(vault[1], VaultKey(name),
                                                  key[1], iv))
                            ELSE vault
                /\ IF provider_type \notin ProviderClasses
                   THEN /\ ret' = Failed("UnknownProviderType")
                        /\ UNCHANGED providers
                   ELSE /\ ret' = Gave(None)
                        /\ providers' = providers \cup {name}
        /\ UNCHANGED <<models, rvars, ovars, picks, target, cvars, svars>>

\* a slip: the provider goes, its key stays in the vault
remove_provider_keeps_key(ps, v, name) ==
    IF name \in ps
    THEN [providers |-> ps \ {name}, vault |-> v, value |-> TRUE]
    ELSE [providers |-> ps, vault |-> v, value |-> FALSE]

\* ProviderRegistry.remove_provider(name): the registry and the vault
\* afterwards and the value returned
remove_provider(ps, v, name) ==
    IF name \in ps
    THEN [providers |-> ps \ {name},
          vault |-> IF v # None
                    THEN Some(vault_delete(v[1], VaultKey(name)))
                    ELSE v,
          value |-> TRUE]
    ELSE [providers |-> ps, vault |-> v, value |-> FALSE]

RemoveProvider(name) ==
    /\ providers' = remove_provider(providers, vault, name).providers
    /\ vault' = remove_provider(providers, vault, name).vault
    /\ lastop' = Op("remove_provider", name)
    /\ before' = RegistryNow
    /\ ret' = Gave(remove_provider(providers, vault, name).value)
    /\ UNCHANGED <<models, rvars, ovars, picks, target, cvars, svars>>

\* ProviderRegistry(vault) and ProviderRegistry(): no provider yet, an
\* empty vault or none
ProviderInit ==
    /\ models = DefaultCatalog
    /\ providers = {}
    /\ vault \in {None, Some(<<>>)}
    /\ RoutingIdle
    /\ OrchestrationIdle
    /\ picks = <<>>
    /\ target = <<>>
    /\ lastop = NoOp
    /\ before = NoOp
    /\ ret = NoReturn
    /\ ThreadsIdle
    /\ StoresIdle

ProviderNext ==
    \/ \E name \in ProviderNames, provider_type \in ProviderTypes,
          api_key \in ApiKeys, store_in_vault \in BOOLEAN,
          env \in EnvKeys, iv \in IVs :
          AddProvider(name, provider_type, api_key, store_in_vault, env, iv)
    \/ \E name \in ProviderNames : RemoveProvider(name)

ProviderSpec == ProviderInit /\ [][ProviderNext]_vars

-----------------------------------------------------------------------------
(* tokenhub/vault.py: the operations of SecureVault called directly *)

\* at most MaxVaultOps store, delete and clear calls are made on one vault
MaxVaultOps == 3

VaultKeys == {"k1", "k2"}

\* the values stored: "a", "b", and the one character U+00E9
VaultValues == {<<97>>, <<98>>, <<233>>}

\* SecureVault.store(key, value)
VaultStore(key, value, iv) ==
    /\ Len(vlog) < MaxVaultOps
    /\ vlog' = Append(vlog, Op("store", [key |-> key, value |-> value]))
    /\ lastop' = Op("store", [key |-> key, value |-> value])
    /\ before' = vault
    /\ vault' = Some(vault_store(vault[1], key, value, iv))
    /\ ret' = IF EncryptRaises(value) THEN Failed("EncryptFailed")
              ELSE Gave(None)
    /\ UNCHANGED <<models, providers, rvars, ovars, picks, target, cvars, db>>

\* SecureVault.delete(key)
VaultDelete(key) ==
    /\ Len(vlog) < MaxVaultOps
    /\ vlog' = Append(vlog, Op("delete", key))
    /\ lastop' = Op("delete", key)
    /\ before' = vault
    /\ vault' = Some(vault_delete(vault[1], key))
    /\ ret' = Gave(key \in Keys(vault[1]))
    /\ UNCHANGED <<models, providers, rvars, ovars, picks, target, cvars, db>>

\* SecureVault.clear(): self._data.clear()
vault_clear(data) == <<>>

VaultClear ==
    /\ Len(vlog) < MaxVaultOps
    /\ vlog' = Append(vlog, Op("clear", <<>>))
    /\ lastop' = Op("clear", <<>>)
    /\ before' = vault
    /\ vault' = Some(vault_clear(vault[1]))
    /\ ret' = Gave(None)
    /\ UNCHANGED <<models, providers, rvars, ovars, picks, target, cvars, db>>

\* SecureVault.retrieve(key)
VaultRetrieve(key) ==
    /\ lastop' = Op("retrieve", key)
    /\ ret' = Gave(vault_retrieve(vault[1], key))
    /\ UNCHANGED <<models, providers, rvars, ovars, picks, target, vault,
                   before, cvars, svars>>

\* SecureVault(password): no data
VaultInit ==
    /\ models = DefaultCatalog
    /\ providers = {}
    /\ vault = Some(<<>>)
    /\ RoutingIdle
    /\ OrchestrationIdle
    /\ picks = <<>>
    /\ target = <<>>
    /\ lastop = NoOp
    /\ before = NoOp
    /\ ret = NoReturn
    /\ ThreadsIdle
    /\ StoresIdle

VaultNext ==
    \/ \E key \in VaultKeys, value \in VaultValues, iv \in IVs :
          VaultStore(key, value, iv)
    \/ \E key \in VaultKeys : VaultDelete(key)
    \/ VaultClear
    \/ \E key \in VaultKeys : VaultRetrieve(key)

VaultSpec == VaultInit /\ [][VaultNext]_vars

-----------------------------------------------------------------------------
(* tokenhub/api.py: the admin routes of TokenHubAPI, with                  *)
(* tokenhub/persistence.py behind them                                     *)

\* the admin_password the API was constructed with
AdminPassword == <<"p", "w">>

Bearer == <<"B", "e", "a", "r", "e", "r", " ">>

\* s.startswith(prefix)
StartsWith(s, prefix) ==
    Len(s) >= Len(prefix) /\ SubSeq(s, 1, Len(prefix)) = prefix

\* s[n:]
SliceFrom(s, n) == SubSeq(s, n + 1, Len(s))

\* a slip: only the scheme is looked at
unauthorized_scheme_only(auth, admin_password) == ~StartsWith(auth, Bearer)

\* "Verify admin password":
\* not auth.startswith('Bearer ') or auth[7:] != self.admin_password
unauthorized(auth, admin_password) ==
    ~StartsWith(auth, Bearer) \/ SliceFrom(auth, 7) # admin_password

\* request.headers.get('Authorization', '')
AuthorizationOf(header) == IF header = None THEN <<>> ELSE header[1]

\* Authorization headers: none; the right one; a password cut short, grown
\* by a letter, missing; the scheme in lower case, without its blank, with
\* another first letter, missing, after a blank
Headers ==
    { None,
      Some(Bearer \o AdminPassword),
      Some(Bearer \o <<"p">>),
      Some(Bearer \o <<"p", "w", "x">>),
      Some(Bearer),
      Some(<<"b", "e", "a", "r", "e", "r", " ">> \o AdminPassword),
      Some(<<"B", "e", "a", "r", "e", "r">> \o AdminPassword),
      Some(<<"X", "e", "a", "r", "e", "r", " ">> \o AdminPassword),
      Some(AdminPassword),
      Some(<<" ">> \o Bearer \o AdminPassword) }

\* jsonify(...), status
HttpResponse(code, body) == Gave([code |-> code, body |-> body])

\* the registries, the vault and the database
ApiNow == [models |-> models, providers |-> providers, vault |-> vault,
           db |-> db]

\* SecureVault.export_encrypted()
export_encrypted(data) == [salt |-> "salt", data |-> data]

\* PersistenceManager.save_vault_data: DELETE FROM vault_data, then one INSERT
save_vault_data(database, vault_data) ==
    [database EXCEPT !.vault_data = Some(vault_data)]

\* PersistenceManager.save_models: INSERT OR REPLACE of one row per item, the
\* item's key as the primary key `name`
save_models(database, models_data) ==
    LET Row(item) == [name |-> item.key,
                      provider |-> DictGet(item.val, "provider")[1],
                      cost_per_1k_tokens |->
                          DictGet(item.val, "cost_per_1k_tokens")[1],
                      context_size |-> DictGet(item.val, "context_size")[1],
                      weight |-> DictGet(item.val, "weight")[1]]
        Rows[i \in 0..Len(models_data)] ==
            IF i = 0 THEN database.models
            ELSE {r \in Rows[i - 1] : r.name # models_data[i].key}
                     \cup {Row(models_data[i])}
    IN  [database EXCEPT !.models = Rows[Len(models_data)]]

\* request.json of POST /admin/providers: no JSON body; a mock provider
\* with a key, its name missing or not; and for the first provider an
\* unknown type, a missing key, a key outside ASCII
ProviderBodies ==
    {None}
    \cup { Some([name |-> n, provider_type |-> Some("mock"),
                 api_key |-> Some(<<107>>)]) :
             n \in {None, Some("p1"), Some("p2")} }
    \cup { Some([name |-> Some("p1"), provider_type |-> Some("other"),
                 api_key |-> Some(<<107>>)]),
           Some([name |-> Some("p1"), provider_type |-> Some("mock"),
                 api_key |-> None]),
           Some([name |-> Some("p1"), provider_type |-> Some("mock"),
                 api_key |-> Some(<<233>>)]) }

\* all([name, provider_type, api_key])
AllGiven(data) ==
    /\ TruthyStr(data.name)
    /\ TruthyStr(data.provider_type)
    /\ data.api_key # None /\ data.api_key[1] # <<>>

\* POST /admin/providers
PostAdminProviders(header, body, iv) ==
    /\ lastop' = Op("POST /admin/providers", [auth |-> header, json |-> body])
    /\ before' = ApiNow
    /\ IF unauthorized(AuthorizationOf(header), AdminPassword)
       THEN /\ ret' = HttpResponse(401, "Unauthorized")
            /\ UNCHANGED <<providers, vault, db>>
       ELSE IF body = None
       THEN /\ ret' = HttpResponse(500, "no JSON")
            /\ UNCHANGED <<providers, vault, db>>
       ELSE IF ~AllGiven(body[1])
       THEN /\ ret' = HttpResponse(400, "Missing required fields")
            /\ UNCHANGED <<providers, vault, db>>
       ELSE IF EncryptRaises(body[1].api_key[1])
       THEN /\ ret' = HttpResponse(500, "EncryptFailed")
            /\ UNCHANGED <<providers, vault, db>>
       ELSE /\ vault' = Some(vault_store(vault[1], VaultKey(body[1].name[1]),
                                         body[1].api_key[1], iv))
            /\ IF body[1].provider_type[1] \notin ProviderClasses
               THEN /\ ret' = HttpResponse(500, "UnknownProviderType")
                    /\ UNCHANGED <<providers, db>>
               ELSE /\ providers' = providers \cup {body[1].name[1]}
                    /\ db' = save_vault_data(db, export_encrypted(vault'[1]))
                    /\ ret' = HttpResponse(200, "Provider added successfully")
    /\ UNCHANGED <<models, rvars, ovars, picks, target, cvars, vlog>>

\* GET /admin/providers
GetAdminProviders(header) ==
    /\ lastop' = Op("GET /admin/providers", [auth |-> header, json |-> None])
    /\ before' = ApiNow
    /\ ret' = IF unauthorized(AuthorizationOf(header), AdminPassword)
              THEN HttpResponse(401, "Unauthorized")
              ELSE HttpResponse(200, providers)
    /\ UNCHANGED <<models, providers, rvars, ovars, picks, target, vault,
                   cvars, svars>>

\* the records POST /admin/models is sent: the first default model at a new
\* cost, and a third model
ApiModels ==
    { ModelMetadata("m1", "p1", 2, 1, 1), ModelMetadata("m3", "p1", 0, 2, 2) }

\* request.json of POST /admin/models: no JSON body, a model's fields, or
\* the third model's fields without the weight
ModelBodies ==
    {None}
    \cup { Some(to_dict(r)) : r \in ApiModels }
    \cup { Some(SubSeq(to_dict(ModelMetadata("m3", "p1", 0, 2, 2)), 1, 4)) }

ModelFields == {"name", "provider", "cost_per_1k_tokens", "context_size",
                "weight"}

\* POST /admin/models
PostAdminModels(header, body) ==
    /\ lastop' = Op("POST /admin/models", [auth |-> header, json |-> body])
    /\ before' = ApiNow
    /\ IF unauthorized(AuthorizationOf(header), AdminPassword)
       THEN /\ ret' = HttpResponse(401, "Unauthorized")
            /\ UNCHANGED <<models, db>>
       ELSE IF body = None
       THEN /\ ret' = HttpResponse(500, "no JSON")
            /\ UNCHANGED <<models, db>>
       ELSE IF ~(ModelFields \subseteq Keys(body[1]))
       THEN /\ ret' = HttpResponse(500, "KeyError")
            /\ UNCHANGED <<models, db>>
       ELSE /\ models' =
                register_model(models,
                    ModelMetadata(DictGet(body[1], "name")[1],
                                  DictGet(body[1], "provider")[1],
                                  DictGet(body[1], "cost_per_1k_tokens")[1],
                                  DictGet(body[1], "context_size")[1],
                                  DictGet(body[1], "weight")[1]))
            /\ db' = save_models(db, export_models(models'))
            /\ ret' = HttpResponse(200, "Model added successfully")
    /\ UNCHANGED <<providers, rvars, ovars, picks, target, vault, cvars, vlog>>

\* TokenHubAPI(admin_password, db_path) on a new database: the default
\* models, no provider, an empty vault, nothing persisted
ApiInit ==
    /\ models = DefaultCatalog
    /\ providers = {}
    /\ vault = Some(<<>>)
    /\ RoutingIdle
    /\ OrchestrationIdle
    /\ picks = <<>>
    /\ target = <<>>
    /\ lastop = NoOp
    /\ before = NoOp
    /\ ret = NoReturn
    /\ ThreadsIdle
    /\ StoresIdle

ApiNext ==
    \/ \E header \in Headers, body \in ProviderBodies, iv \in IVs :
          PostAdminProviders(header, body, iv)
    \/ \E header \in Headers : GetAdminProviders(header)
    \/ \E header \in Headers, body \in ModelBodies :
          PostAdminModels(header, body)

ApiSpec == ApiInit /\ [][ApiNext]_vars

-----------------------------------------------------------------------------
(* tokenhub/orchestration.py *)

\* max_refinement_iterations ranges over 0..MaxRefinements
MaxRefinements == 2

OrchestrationResult(fr, pr, cr, rr, it) ==
    [final_response |-> fr, plan_response |-> pr, critique_response |-> cr,
     refinement_responses |-> rr, iterations |-> it]

\* execute returned `value`
OReturned(value) == [status |-> "returned", error |-> "", original |-> "",
                     value |-> Some(value)]

\* execute raised: an exception of its own, or the one a routing call raised
ORaised(kind, orig) == [status |-> "raised", error |-> kind, original |-> orig,
                        value |-> None]

\* the literal of the critique request's user message, shortened to 4
\* characters: "Please provide a critical analysis of the above response. ..."
CritiqueInstruction == <<"P", "l", "s", ".">>

\* the f-string of the refinement request's user message, its literals
\* shortened: "Critique: " + critique + "\n\nPlease refine ... critique."
RefinementInstruction(critique) == <<"C", ":">> \o critique \o <<".">>

\* _execute_adversarial, "Step 1": the plan request
PlanRequest(req, cfg) ==
    ChatRequest(req.messages, cfg.planner_model, req.max_tokens,
                req.temperature)

\* _execute_adversarial, "Step 2": the critique request
CritiqueRequest(req, cfg, plan) ==
    ChatRequest(req.messages
                    \o <<ChatMessage("assistant", plan.content),
                         ChatMessage("user", CritiqueInstruction)>>,
                cfg.critic_model, req.max_tokens, req.temperature)

\* a slip: the draft and the critique change places
RefinementRequestSwapped(req, cfg, plan, critique) ==
    ChatRequest(req.messages
                    \o <<ChatMessage("assistant", critique.content),
                         ChatMessage("user",
                                     RefinementInstruction(plan.content))>>,
                cfg.planner_model, req.max_tokens, req.temperature)

\* _execute_adversarial, "Step 3": the refinement request of one iteration;
\* `plan` is the local plan_response at that iteration
RefinementRequest(req, cfg, plan, critique) ==
    ChatRequest(req.messages
                    \o <<ChatMessage("assistant", plan.content),
                         ChatMessage("user",
                                     RefinementInstruction(critique.content))>>,
                cfg.planner_model, req.max_tokens, req.temperature)

\* one execute_with_routing call of the orchestration: the step it belongs
\* to and the request as it is handed over
RoutingEntry(step, req) ==
    [step |-> step, request |-> req, result |-> "pending", response |-> None,
     provider_calls |-> 0]

\* the call has ended: how it ended, and the number of provider calls it made
SettleEntry(log, res, resp) ==
    [log EXCEPT ![Len(log)] = [@ EXCEPT !.result = res, !.response = resp,
                                        !.provider_calls = Len(calls)]]

\* _execute_simple passes its `request` argument on: the caller's object
SimpleHands == "caller"

\* a slip: the caller's object is pinned and handed on, not a copy of it
AdversarialHandsCaller == "caller"

\* _execute_adversarial builds a ChatRequest of its own for every step, on a
\* copy of the caller's message list
AdversarialHands == "derived"

\* a slip: the else branch falls back to the simple path
DispatchElseSimple(mode) ==
    IF mode = "adversarial" THEN "adversarial" ELSE "simple"

\* execute: the if / elif / else on config.mode
Dispatch(mode) ==
    IF mode = "simple" THEN "simple"
    ELSE IF mode = "adversarial" THEN "adversarial"
    ELSE "unknown"

\* OrchestrationEngine.execute(request, config, policy), up to the return of
\* its first execute_with_routing call
Execute(req, cfg, pol) ==
    /\ opc = "idle"
    /\ pc = "idle"
    /\ UNCHANGED xvars
    /\ orequest' = req
    /\ config0' = cfg
    /\ config' = IF cfg = None THEN DefaultConfig ELSE cfg[1]
    /\ plan_response' = None
    /\ critique_response' = None
    /\ refinement_responses' = <<>>
    /\ final_response' = None
    /\ summary' = None
    /\ IF Dispatch(config'.mode) = "simple"
       THEN /\ opc' = "simple"
            /\ handed' = SimpleHands
            /\ rlog' = <<RoutingEntry("simple", req)>>
            /\ oresult' = NoResult
            /\ RoutingCall(req, pol)
       ELSE IF Dispatch(config'.mode) = "adversarial"
       THEN /\ opc' = "plan"
            /\ handed' = AdversarialHands
            /\ rlog' = <<RoutingEntry("plan", PlanRequest(req, config'))>>
            /\ oresult' = NoResult
            /\ RoutingCall(PlanRequest(req, config'), pol)
       ELSE /\ opc' = "done"
            /\ handed' = "none"
            /\ rlog' = <<>>
            /\ oresult' = ORaised("UnknownOrchestrationMode", "")
            /\ UNCHANGED <<models, providers, rvars>>

\* a slip: a failure after the plan step is caught and the plan is returned
RoutingRaisesReturnsPartial ==
    /\ opc \in {"simple", "plan", "critique", "refine"}
    /\ pc = "done"
    /\ outcome.status = "raised"
    /\ opc' = "done"
    /\ rlog' = SettleEntry(rlog, "raised", None)
    /\ oresult' = IF plan_response # None
                  THEN OReturned(OrchestrationResult(plan_response[1],
                                     plan_response, critique_response, None, 1))
                  ELSE ORaised(outcome.error, outcome.original)
    /\ UNCHANGED <<models, providers, rvars, orequest, config, plan_response,
                   critique_response, refinement_responses, final_response,
                   summary, handed, config0, xvars>>

\* an execute_with_routing call of the orchestration raises: nothing catches
\* it, execute raises it
RoutingRaises ==
    /\ opc \in {"simple", "plan", "critique", "refine"}
    /\ pc = "done"
    /\ outcome.status = "raised"
    /\ opc' = "done"
    /\ rlog' = SettleEntry(rlog, "raised", None)
    /\ oresult' = ORaised(outcome.error, outcome.original)
    /\ UNCHANGED <<models, providers, rvars, orequest, config, plan_response,
                   critique_response, refinement_responses, final_response,
                   summary, handed, config0, xvars>>

\* a slip: the response is reported as a plan as well
SimpleResultWithPlan(response) ==
    OrchestrationResult(response, Some(response), None, None, 1)

\* _execute_simple: OrchestrationResult(final_response=response, iterations=1)
SimpleResult(response) ==
    OrchestrationResult(response, None, None, None, 1)

\* _execute_simple: the routing call returns
SimpleReturns ==
    /\ opc = "simple"
    /\ pc = "done"
    /\ outcome.status = "returned"
    /\ opc' = "done"
    /\ rlog' = SettleEntry(rlog, "returned", outcome.response)
    /\ oresult' = OReturned(SimpleResult(outcome.response[1]))
    /\ UNCHANGED <<models, providers, rvars, orequest, config, plan_response,
                   critique_response, refinement_responses, final_response,
                   summary, handed, config0, xvars>>

\* a slip: iterations counts the refinements only
AdversarialResultCountsRefinements(fr, pr, cr, rrs) ==
    OrchestrationResult(fr[1], pr, cr,
                        IF rrs # <<>> THEN Some(rrs) ELSE None,
                        Len(rrs))

\* a slip: the first refinement is reported as the final response
AdversarialResultFirstRefinement(fr, pr, cr, rrs) ==
    OrchestrationResult(IF rrs # <<>> THEN rrs[1] ELSE fr[1], pr, cr,
                        IF rrs # <<>> THEN Some(rrs) ELSE None,
                        1 + Len(rrs))

\* _execute_adversarial: the OrchestrationResult it returns, from its locals
AdversarialResult(fr, pr, cr, rrs) ==
    OrchestrationResult(fr[1], pr, cr,
                        IF rrs # <<>> THEN Some(rrs) ELSE None,
                        1 + Len(rrs))

\* _execute_adversarial: the guard of the refinement loop
RefinementEnabled(cfg) ==
    cfg.enable_refinement /\ cfg.max_refinement_iterations > 0

\* a slip: the loop runs once more than range() does
MoreRefinementsInclusive(n, cfg) == n <= cfg.max_refinement_iterations

\* for i in range(config.max_refinement_iterations), n iterations done
MoreRefinements(n, cfg) == n < cfg.max_refinement_iterations

\* _execute_adversarial: the plan's routing call returns; the critique call
PlanReturns ==
    /\ opc = "plan"
    /\ pc = "done"
    /\ outcome.status = "returned"
    /\ plan_response' = outcome.response
    /\ opc' = "critique"
    /\ rlog' = Append(SettleEntry(rlog, "returned", outcome.response),
                      RoutingEntry("critique",
                                   CritiqueRequest(orequest, config,
                                                   plan_response'[1])))
    /\ RoutingCall(CritiqueRequest(orequest, config, plan_response'[1]), policy)
    /\ UNCHANGED <<orequest, config, critique_response, refinement_responses,
                   final_response, oresult, summary, handed, config0, xvars>>

\* _execute_adversarial: the critique's routing call returns; the first
\* refinement call if there is one, else the return
CritiqueReturns ==
    /\ opc = "critique"
    /\ pc = "done"
    /\ outcome.status = "returned"
    /\ critique_response' = outcome.response
    /\ refinement_responses' = <<>>
    /\ final_response' = plan_response
    /\ IF RefinementEnabled(config)
       THEN /\ opc' = "refine"
            /\ rlog' = Append(SettleEntry(rlog, "returned", outcome.response),
                              RoutingEntry("refine",
                                  RefinementRequest(orequest, config,
                                                    plan_response[1],
                                                    critique_response'[1])))
            /\ RoutingCall(RefinementRequest(orequest, config, plan_response[1],
                                             critique_response'[1]), policy)
            /\ UNCHANGED oresult
       ELSE /\ opc' = "done"
            /\ rlog' = SettleEntry(rlog, "returned", outcome.response)
            /\ oresult' = OReturned(AdversarialResult(
                              final_response', plan_response,
                              critique_response', refinement_responses'))
            /\ UNCHANGED <<models, providers, rvars>>
    /\ UNCHANGED <<orequest, config, plan_response, summary, handed, config0, xvars>>

\* a slip: each refined draft is sent to the critic again
RefinementReturnsRecritiques ==
    /\ opc = "refine"
    /\ pc = "done"
    /\ outcome.status = "returned"
    /\ refinement_responses' = Append(refinement_responses, outcome.response[1])
    /\ final_response' = outcome.response
    /\ plan_response' = outcome.response
    /\ opc' = "critique"
    /\ rlog' = Append(SettleEntry(rlog, "returned", outcome.response),
                      RoutingEntry("critique",
                                   CritiqueRequest(orequest, config,
                                                   plan_response'[1])))
    /\ RoutingCall(CritiqueRequest(orequest, config, plan_response'[1]), policy)
    /\ UNCHANGED <<orequest, config, critique_response, oresult, summary, handed, config0, xvars>>

\* _execute_adversarial: a refinement's routing call returns; the next
\* iteration of the loop if there is one, else the return
RefinementReturns ==
    /\ opc = "refine"
    /\ pc = "done"
    /\ outcome.status = "returned"
    /\ refinement_responses' = Append(refinement_responses, outcome.response[1])
    /\ final_response' = outcome.response
    /\ plan_response' = outcome.response
    /\ IF MoreRefinements(Len(refinement_responses'), config)
       THEN /\ opc' = "refine"
            /\ rlog' = Append(SettleEntry(rlog, "returned", outcome.response),
                              RoutingEntry("refine",
                                  RefinementRequest(orequest, config,
                                                    plan_response'[1],
                                                    critique_response[1])))
            /\ RoutingCall(RefinementRequest(orequest, config,
                                             plan_response'[1],
                                             critique_response[1]), policy)
            /\ UNCHANGED oresult
       ELSE /\ opc' = "done"
            /\ rlog' = SettleEntry(rlog, "returned", outcome.response)
            /\ oresult' = OReturned(AdversarialResult(
                              final_response', plan_response',
                              critique_response, refinement_responses'))
            /\ UNCHANGED <<models, providers, rvars>>
    /\ UNCHANGED <<orequest, config, critique_response, summary, handed, config0, xvars>>

Digits == <<"0", "1", "2", "3", "4", "5", "6", "7", "8", "9">>

RECURSIVE Str(_)
\* str(n) of a natural number: its decimal digits
Str(n) ==
    IF n < 10 THEN <<Digits[n + 1]>>
    ELSE Str(n \div 10) \o <<Digits[(n % 10) + 1]>>

\* a slip: `is not None` where the code tests the list's truth value
create_adversarial_summary_empty_list(result) ==
    LET base == ("final_response" :> result.final_response.content)
                @@ ("iterations" :> Str(result.iterations))
        plan == IF result.plan_response # None
                THEN "initial_plan" :> result.plan_response[1].content
                ELSE <<>>
        critique == IF result.critique_response # None
                    THEN "critique" :> result.critique_response[1].content
                    ELSE <<>>
        refinements ==
            IF result.refinement_responses # None
            THEN "refinements" :>
                     [i \in 1..Len(result.refinement_responses[1]) |->
                         result.refinement_responses[1][i].content]
            ELSE <<>>
    IN  base @@ plan @@ critique @@ refinements

\* OrchestrationEngine.create_adversarial_summary(result): a dict, here a
\* function on the keys it holds
create_adversarial_summary(result) ==
    LET base == ("final_response" :> result.final_response.content)
                @@ ("iterations" :> Str(result.iterations))
        plan == IF result.plan_response # None
                THEN "initial_plan" :> result.plan_response[1].content
                ELSE <<>>
        critique == IF result.critique_response # None
                    THEN "critique" :> result.critique_response[1].content
                    ELSE <<>>
        refinements ==
            IF result.refinement_responses # None
               /\ result.refinement_responses[1] # <<>>
            THEN "refinements" :>
                     [i \in 1..Len(result.refinement_responses[1]) |->
                         result.refinement_responses[1][i].content]
            ELSE <<>>
    IN  base @@ plan @@ critique @@ refinements

\* the caller summarises the result execute returned
CreateAdversarialSummary ==
    /\ opc = "done"
    /\ oresult.status = "returned"
    /\ summary = None
    /\ summary' = Some(create_adversarial_summary(oresult.value[1]))
    /\ UNCHANGED <<models, providers, rvars, opc, orequest, config,
                   plan_response, critique_response, refinement_responses,
                   final_response, rlog, oresult, handed, config0, xvars>>

\* the caller takes execute's result; both engines are ready for the next call
OFinish ==
    /\ opc = "done"
    /\ op' = "none"
    /\ pc' = "idle"
    /\ request' = NoRequest
    /\ request0' = NoRequest
    /\ policy' = NoPolicy
    /\ selected' = None
    /\ escalated' = None
    /\ calls' = <<>>
    /\ outcome' = NoOutcome
    /\ opc' = "idle"
    /\ orequest' = NoRequest
    /\ config' = DefaultConfig
    /\ plan_response' = None
    /\ critique_response' = None
    /\ refinement_responses' = <<>>
    /\ final_response' = None
    /\ rlog' = <<>>
    /\ oresult' = NoResult
    /\ summary' = None
    /\ handed' = "none"
    /\ config0' = None
    /\ UNCHANGED <<models, providers, xvars>>

\* the catalogs of the orchestration runs: two models that hold every request
\* of a run, the lighter one with the larger context, and a single model too
\* small for a critique or refinement request
OCatalogs ==
    { << [key |-> "m1", val |-> ModelMetadata("m1", "p1", 0, 16, 1)],
         [key |-> "m2", val |-> ModelMetadata("m2", "p2", 2, 8, 2)] >>,
      << [key |-> "m1", val |-> ModelMetadata("m1", "p1", 0, 1, 1)] >> }

ODirectories == {{"p1", "p2"}, {"p2"}}

\* the contents a provider answers with in the orchestration runs
OReplyContents == {<<"a">>, <<"b">>}

ORequests ==
    { ChatRequest(<<ChatMessage("user", Text(3))>>, m, None, None) :
        m \in Pins }

\* planner_model and critic_model: both absent, or both pinned
ModelPairs == {<<None, None>>, <<Some("m1"), Some("m2")>>}

\* no config, a SIMPLE one, one of an unknown mode, and the ADVERSARIAL ones
OConfigs ==
    {None, Some(DefaultConfig),
     Some(OrchestrationConfig("other", None, None, 1, FALSE))}
    \cup { Some(OrchestrationConfig("adversarial", mp[1], mp[2], mri, er)) :
             mp \in ModelPairs, mri \in 0..MaxRefinements, er \in BOOLEAN }

OPolicies == { RoutingPolicy(None, None, TRUE, ae) : ae \in BOOLEAN }

OInit ==
    /\ models \in OCatalogs
    /\ providers \in ODirectories
    /\ RoutingIdle
    /\ OrchestrationIdle
    /\ RegistriesIdle

ONext ==
    \/ \E req \in ORequests, cfg \in OConfigs, pol \in OPolicies :
           Execute(req, cfg, pol)
    \/ \E content \in OReplyContents : Call1Returns(content)
    \/ Call1Raises
    \/ \E content \in OReplyContents : Call2Returns(content)
    \/ Call2Raises
    \/ RoutingRaises
    \/ SimpleReturns
    \/ PlanReturns
    \/ CritiqueReturns
    \/ RefinementReturns
    \/ CreateAdversarialSummary
    \/ OFinish

OSpec == OInit /\ [][ONext]_vars

\* the responses a hand-made OrchestrationResult is built of
SummaryResponses ==
    { ChatResponse(c, Some("m1")) : c \in OReplyContents }

\* the lists of at most n responses
ResponseLists(n) ==
    UNION { [1..k -> SummaryResponses] : k \in 0..n }

\* the OrchestrationResult values a caller can hold: those execute returns
\* and those built by hand, an empty refinement list among them
SummaryResults ==
    { OrchestrationResult(fr, pr, cr, rr, it) :
        fr \in SummaryResponses,
        pr \in {None} \cup {Some(r) : r \in SummaryResponses},
        cr \in {None} \cup {Some(r) : r \in SummaryResponses},
        rr \in {None} \cup {Some(s) : s \in ResponseLists(MaxRefinements)},
        it \in 1..(MaxRefinements + 1) }

\* a caller holds a result
SummaryInit ==
    /\ models = <<>>
    /\ providers = {}
    /\ RoutingIdle
    /\ opc = "done"
    /\ orequest = NoRequest
    /\ config = DefaultConfig
    /\ plan_response = None
    /\ critique_response = None
    /\ refinement_responses = <<>>
    /\ final_response = None
    /\ rlog = <<>>
    /\ oresult \in {OReturned(r) : r \in SummaryResults}
    /\ summary = None
    /\ handed = "none"
    /\ config0 = None
    /\ RegistriesIdle

SummaryNext == CreateAdversarialSummary

SummarySpec == SummaryInit /\ [][SummaryNext]_vars

\* a provider call in progress returns or raises
ProviderAnswers ==
    \/ \E content \in OReplyContents : Call1Returns(content)
    \/ Call1Raises
    \/ \E content \in OReplyContents : Call2Returns(content)
    \/ Call2Raises

\* the orchestration engine goes on after a routing call has ended
EngineContinues ==
    \/ RoutingRaises
    \/ SimpleReturns
    \/ PlanReturns
    \/ CritiqueReturns
    \/ RefinementReturns

\* the orchestration runs where every provider call in progress ends and the
\* synchronous code of the engines runs on
OLiveSpec ==
    /\ OInit
    /\ [][ONext]_vars
    /\ WF_vars(ProviderAnswers)
    /\ WF_vars(EngineContinues)

-----------------------------------------------------------------------------
(* two threads calling OrchestrationEngine.execute on one engine *)

\* the locals of the running thread: the frames of execute,
\* _execute_simple or _execute_adversarial, execute_with_routing and
\* _escalate_request, and the request object the thread works on
ThreadLocals ==
    [op |-> op, pc |-> pc, request |-> request, request0 |-> request0,
     policy |-> policy, selected |-> selected, escalated |-> escalated,
     calls |-> calls, outcome |-> outcome, opc |-> opc,
     orequest |-> orequest, config |-> config,
     plan_response |-> plan_response,
     critique_response |-> critique_response,
     refinement_responses |-> refinement_responses,
     final_response |-> final_response, rlog |-> rlog, oresult |-> oresult,
     summary |-> summary, handed |-> handed, config0 |-> config0]

\* a slip: execute_with_routing keeps the policy of the call on the engine
\* (self.policy = policy or self.default_policy), where every thread reads it
IncomingSharesPolicy(locals) == [locals EXCEPT !.policy = policy]

\* what a thread finds when it runs again: its own locals, as it left them;
\* neither engine has an attribute that a call assigns
Incoming(locals) == locals

\* the running thread has called execute and execute has not ended
InCall(locals) == locals.opc \notin {"idle", "done"}

\* the interpreter switches to the other thread
Switch ==
    /\ Len(alone) = 2
    /\ ~(opc = "done" /\ parked.opc = "done")
    /\ thread' = 3 - thread
    /\ parked' = ThreadLocals
    /\ mixed' = (mixed \/ (InCall(ThreadLocals) /\ InCall(parked)))
    /\ op' = Incoming(parked).op
    /\ pc' = Incoming(parked).pc
    /\ request' = Incoming(parked).request
    /\ request0' = Incoming(parked).request0
    /\ policy' = Incoming(parked).policy
    /\ selected' = Incoming(parked).selected
    /\ escalated' = Incoming(parked).escalated
    /\ calls' = Incoming(parked).calls
    /\ outcome' = Incoming(parked).outcome
    /\ opc' = Incoming(parked).opc
    /\ orequest' = Incoming(parked).orequest
    /\ config' = Incoming(parked).config
    /\ plan_response' = Incoming(parked).plan_response
    /\ critique_response' = Incoming(parked).critique_response
    /\ refinement_responses' = Incoming(parked).refinement_responses
    /\ final_response' = Incoming(parked).final_response
    /\ rlog' = Incoming(parked).rlog
    /\ oresult' = Incoming(parked).oresult
    /\ summary' = Incoming(parked).summary
    /\ handed' = Incoming(parked).handed
    /\ config0' = Incoming(parked).config0
    /\ UNCHANGED <<models, providers, picks, target, vault, lastop, before,
                   ret, alone, jobs, failing, svars>>

\* the call the running thread makes: each call alone first, one after the
\* other, then the two calls in two threads
ThreadCallsExecute ==
    LET job == jobs[IF Len(alone) < 2 THEN Len(alone) + 1 ELSE thread]
    IN  Execute(job.request, job.config, job.policy)

\* a call that ran alone has ended: its result is kept for comparison and the
\* thread is ready for the next call
AloneEnds ==
    /\ Len(alone) < 2
    /\ opc = "done"
    /\ alone' = Append(alone, oresult)
    /\ op' = IdleLocals.op
    /\ pc' = IdleLocals.pc
    /\ request' = IdleLocals.request
    /\ request0' = IdleLocals.request0
    /\ policy' = IdleLocals.policy
    /\ selected' = IdleLocals.selected
    /\ escalated' = IdleLocals.escalated
    /\ calls' = IdleLocals.calls
    /\ outcome' = IdleLocals.outcome
    /\ opc' = IdleLocals.opc
    /\ orequest' = IdleLocals.orequest
    /\ config' = IdleLocals.config
    /\ plan_response' = IdleLocals.plan_response
    /\ critique_response' = IdleLocals.critique_response
    /\ refinement_responses' = IdleLocals.refinement_responses
    /\ final_response' = IdleLocals.final_response
    /\ rlog' = IdleLocals.rlog
    /\ oresult' = IdleLocals.oresult
    /\ summary' = IdleLocals.summary
    /\ handed' = IdleLocals.handed
    /\ config0' = IdleLocals.config0
    /\ UNCHANGED <<models, providers, picks, target, vault, lastop, before,
                   ret, thread, parked, jobs, failing, mixed, svars>>

\* MockProviderAdapter.chat_completion: the content names the model of the
\* request, f"Mock response from {request.model}" with the literal shortened
MockContent(req) == <<"M", ":">> \o <<req.model[1]>>

\* the provider called last by the running thread
CalledProvider == calls[Len(calls)].provider

\* a provider answers as the directory has it: it raises on every call, or
\* answers every call by the request alone
FixedProviderAnswers ==
    \/ /\ pc = "call1"
       /\ CalledProvider \notin failing
       /\ Call1Returns(MockContent(request))
    \/ /\ pc = "call1"
       /\ CalledProvider \in failing
       /\ Call1Raises
    \/ /\ pc = "call2"
       /\ CalledProvider \notin failing
       /\ Call2Returns(MockContent(request))
    \/ /\ pc = "call2"
       /\ CalledProvider \in failing
       /\ Call2Raises

\* the catalog of the threaded runs: two models that hold every request
ThreadCatalog ==
    << [key |-> "m1", val |-> ModelMetadata("m1", "p1", 0, 16, 1)],
       [key |-> "m2", val |-> ModelMetadata("m2", "p2", 2, 8, 2)] >>

\* the configs of the two calls: SIMPLE, and ADVERSARIAL with refinement,
\* unpinned with MaxRefinements iterations and pinned with one
ThreadConfigs ==
    { Some(DefaultConfig),
      Some(OrchestrationConfig("adversarial", None, None, MaxRefinements, TRUE)),
      Some(OrchestrationConfig("adversarial", Some("m1"), Some("m2"), 1, TRUE)) }

\* the arguments of the i-th call: the two calls have a ChatRequest each,
\* with a message of its own length
ThreadJobs(i) ==
    { [request |-> ChatRequest(<<ChatMessage("user", Text(2 + i))>>,
                               None, None, None),
       config |-> cfg, policy |-> pol] :
        cfg \in ThreadConfigs, pol \in OPolicies }

ThreadInit ==
    /\ models = ThreadCatalog
    /\ providers = ProviderNames
    /\ RoutingIdle
    /\ OrchestrationIdle
    /\ picks = <<>>
    /\ target = <<>>
    /\ vault = None
    /\ lastop = NoOp
    /\ before = NoOp
    /\ ret = NoReturn
    /\ thread = 1
    /\ parked = IdleLocals
    /\ alone = <<>>
    /\ jobs \in { <<j1, j2>> : j1 \in ThreadJobs(1), j2 \in ThreadJobs(2) }
    /\ failing \in SUBSET ProviderNames
    /\ mixed = FALSE
    /\ StoresIdle

ThreadNext ==
    \/ ThreadCallsExecute
    \/ FixedProviderAnswers
    \/ EngineContinues
    \/ AloneEnds
    \/ Switch

ThreadSpec == ThreadInit /\ [][ThreadNext]_vars

-----------------------------------------------------------------------------
(* What the specification says of routing, stated apart from the code's   *)
(* own operators.                                                          *)

Executing == op = "execute_with_routing"

\* the catalog, as a set of records
CatalogModels == {models[i].val : i \in 1..Len(models)}

\* the estimated context of a request: floor(characters / 4), plus
\* max_output_tokens when present
EstimatedContext(req) ==
    LET chars == SumLen(req.messages)
        tokens == CHOOSE t \in 0..chars : 4 * t <= chars /\ chars < 4 * (t + 1)
    IN  tokens + (IF req.max_tokens = None THEN 0 ELSE req.max_tokens[1])

\* max(policy.min_context_size or 0, estimated context of the request)
RequiredContext ==
    Max(IF policy.min_context_size = None THEN 0 ELSE policy.min_context_size[1],
        EstimatedContext(request0))

\* the context filter: context_size >= required
PassesContext(m) == m.context_size >= RequiredContext

\* the cost ceiling is set: the optional field is present
CeilingSet == policy.max_cost_per_1k_tokens # None

\* the cost filter: if the ceiling is set, cost_per_1k_tokens <= ceiling
PassesCost(m) ==
    CeilingSet => m.cost_per_1k_tokens <= policy.max_cost_per_1k_tokens[1]

\* the catalog models that pass the context and the cost filter
Passing == {m \in CatalogModels : PassesContext(m) /\ PassesCost(m)}

\* the escalation candidates for a failed model, the cost ceiling applied
EscalationSet(f) ==
    {m \in CatalogModels :
        /\ m.name # f.name
        /\ (m.weight > f.weight \/ m.context_size > f.context_size)
        /\ PassesCost(m)}

\* the caller gave a pinned model: a name, not the empty one
Pinned(req) == req.model # None /\ req.model # Some("")

FirstCallRaised == Executing /\ Len(calls) >= 1 /\ calls[1].result = "raised"

-----------------------------------------------------------------------------
\* C1: one execute_with_routing call invokes chat_completion at most twice
\* (the first attempt and at most one escalation attempt); when the escalated
\* call fails, that failure is the result and no further call is made; with
\* allow_escalation false there is at most one provider call.
C1_AtMostTwoProviderCalls ==
    /\ Len(calls) <= 2
    /\ (~policy.allow_escalation => Len(calls) <= 1)
    /\ (Len(calls) = 2 /\ calls[2].result = "raised"
            => pc = "done" /\ outcome = Raised(calls[2].error, ""))

\* both calls were made and both failed, with different failures
C1_Witness ==
    /\ pc = "done"
    /\ Len(calls) = 2
    /\ calls[1].result = "raised"
    /\ calls[2].result = "raised"
    /\ calls[1].error # calls[2].error
    /\ outcome.error = calls[2].error

\* C2: whenever escalation picks a model, it is not the failed model and it
\* strictly exceeds the failed model in weight or in context_size.
C2_EscalationMonotone ==
    escalated # None =>
        /\ selected # None
        /\ escalated[1].name # selected[1].name
        /\ \/ escalated[1].weight > selected[1].weight
           \/ escalated[1].context_size > selected[1].context_size

\* an escalation to a model that exceeds the failed one in context_size only
C2_Witness ==
    /\ escalated # None
    /\ escalated[1].weight <= selected[1].weight
    /\ escalated[1].context_size > selected[1].context_size

\* C3: if the first provider call fails, allow_escalation is true and no
\* catalog model is an escalation candidate once the cost ceiling is applied,
\* the call fails with EscalationExhausted carrying the original failure and
\* no second provider call is made.
C3_ExhaustedWhenNoCandidate ==
    (FirstCallRaised /\ policy.allow_escalation
        /\ EscalationSet(selected[1]) = {})
    => /\ pc = "done"
       /\ outcome = Raised("EscalationExhausted", calls[1].error)
       /\ Len(calls) = 1

\* C4: if the first provider call fails and allow_escalation is false, the
\* provider's failure itself is the result, never EscalationExhausted, and no
\* second provider call is made.
C4_NoEscalationPropagates ==
    (FirstCallRaised /\ ~policy.allow_escalation)
    => /\ pc = "done"
       /\ outcome = Raised(calls[1].error, "")
       /\ outcome.error \in ProviderErrors
       /\ Len(calls) = 1
       /\ escalated = None

\* the first call failed under a policy that forbids escalation, although
\* the catalog holds a model escalation would have picked
C4_Witness ==
    /\ FirstCallRaised
    /\ ~policy.allow_escalation
    /\ EscalationSet(selected[1]) # {}

\* C5: a model returned by select_model has
\* context_size >= max(policy.min_context_size or 0, estimated context).
C5_ContextFilter ==
    selected # None => selected[1].context_size >= RequiredContext

\* a model was returned where the estimate alone (the policy sets no minimum)
\* ruled out another model of the catalog
C5_Witness ==
    /\ selected # None
    /\ policy.min_context_size = None
    /\ EstimatedContext(request0) > 1
    /\ \E m \in CatalogModels : m.context_size < EstimatedContext(request0)

\* C6: if policy.max_cost_per_1k_tokens is set (to any value, zero included),
\* a model returned by select_model has cost_per_1k_tokens <= that ceiling.
C6_CostFilter ==
    (selected # None /\ CeilingSet)
    => selected[1].cost_per_1k_tokens <= policy.max_cost_per_1k_tokens[1]

\* C7: among the catalog models that pass the context and cost filters,
\* select_model returns one of maximal weight when prefer_higher_weight is
\* true and one of minimal cost_per_1k_tokens when it is false.
C7_BestOfPassing ==
    selected # None =>
        /\ selected[1] \in Passing
        /\ policy.prefer_higher_weight
              => \A m \in Passing : m.weight <= selected[1].weight
        /\ ~policy.prefer_higher_weight
              => \A m \in Passing :
                     selected[1].cost_per_1k_tokens <= m.cost_per_1k_tokens

\* C8: select_model returns absent exactly when no catalog model passes both
\* the context and the cost filter; execute_with_routing then fails with
\* ModelNotFound without invoking any provider.
C8_AbsentIffNonePasses ==
    Executing =>
        /\ (selected = None) <=> (Passing = {})
        /\ selected = None
              => /\ pc = "done"
                 /\ outcome = Raised("ModelNotFound", "")
                 /\ calls = <<>>

\* C9: if the selected model's provider is not registered, the call fails
\* with ProviderNotFound, invokes no provider and attempts no escalation,
\* also when allow_escalation is true.
C9_ProviderNotFound ==
    (Executing /\ selected # None /\ selected[1].provider \notin providers)
    => /\ pc = "done"
       /\ outcome = Raised("ProviderNotFound", "")
       /\ calls = <<>>
       /\ escalated = None

\* the selected model's provider is missing, escalation is allowed and the
\* catalog holds a model on a registered provider that escalation would pick
C9_Witness ==
    /\ Executing
    /\ selected # None
    /\ selected[1].provider \notin providers
    /\ policy.allow_escalation
    /\ \E m \in EscalationSet(selected[1]) : m.provider \in providers

\* C10: on the first provider call the request's model field is the caller's
\* pinned model when one was given, and the selected model's name when none
\* was given.
C10_FirstCallModel ==
    (Executing /\ Len(calls) >= 1)
    => calls[1].model =
          IF Pinned(request0) THEN request0.model ELSE Some(selected[1].name)

\* the first call went out under a pin that names another model than the
\* selected one
C10_Witness ==
    /\ Executing
    /\ Len(calls) >= 1
    /\ Pinned(request0)
    /\ request0.model # Some(selected[1].name)
    /\ calls[1].model = request0.model

\* C11: during escalation the request's model field is set to the escalated
\* model's name, whatever it held before; the provider invoked is the
\* escalated model's provider; if that provider is not registered the call
\* fails with ProviderNotFound and no second provider call is made.
C11_EscalatedCall ==
    (Executing /\ escalated # None) =>
        /\ request.model = Some(escalated[1].name)
        /\ escalated[1].provider \in providers
              => /\ Len(calls) = 2
                 /\ calls[2].provider = escalated[1].provider
                 /\ calls[2].model = Some(escalated[1].name)
        /\ escalated[1].provider \notin providers
              => /\ pc = "done"
                 /\ outcome = Raised("ProviderNotFound", "")
                 /\ Len(calls) = 1

\* a pinned request whose first call failed was escalated to another model
\* than the pinned one, and the escalated call went out
C11_Witness ==
    /\ Executing
    /\ escalated # None
    /\ Pinned(request0)
    /\ request0.model # Some(escalated[1].name)
    /\ Len(calls) = 2
    /\ calls[1].model = request0.model
    /\ calls[2].model = Some(escalated[1].name)

\* C12: the escalated model is a member of maximal weight of the escalation
\* candidate set (higher weight or larger context than the failed model,
\* another name, within the cost ceiling), and when the cost ceiling is set
\* its cost_per_1k_tokens does not exceed the ceiling.
C12_EscalatedBest ==
    (Executing /\ escalated # None) =>
        /\ escalated[1] \in EscalationSet(selected[1])
        /\ \A m \in EscalationSet(selected[1]) : m.weight <= escalated[1].weight
        /\ CeilingSet
              => escalated[1].cost_per_1k_tokens
                     <= policy.max_cost_per_1k_tokens[1]

-----------------------------------------------------------------------------
(* What the specification says of orchestration, stated on the log of     *)
(* routing calls and on the result execute returned.                      *)

Simple == opc # "idle" /\ config.mode = "simple"

Adversarial == opc # "idle" /\ config.mode = "adversarial"

OSucceeded == opc = "done" /\ oresult.status = "returned"

\* the responses of the routing calls of one step that returned, in order
StepResponses(step) ==
    LET Of(e) == e.step = step /\ e.result = "returned"
        es == SelectSeq(rlog, Of)
    IN  [i \in 1..Len(es) |-> es[i].response[1]]

\* the number of refinement responses of a result, 0 when the field is absent
RefinementCount(r) ==
    IF r.refinement_responses = None THEN 0 ELSE Len(r.refinement_responses[1])

\* C13: in SIMPLE mode a successful execute makes exactly one
\* execute_with_routing call, with the caller's request, and returns a result
\* with iterations 1, final_response that call's response, and plan_response,
\* critique_response and refinement_responses absent.
C13_SimpleResult ==
    (Simple /\ OSucceeded) =>
        /\ Len(rlog) = 1
        /\ rlog[1].request = orequest
        /\ request0 = orequest
        /\ outcome.status = "returned"
        /\ oresult.value[1].final_response = outcome.response[1]
        /\ oresult.value[1].iterations = 1
        /\ oresult.value[1].plan_response = None
        /\ oresult.value[1].critique_response = None
        /\ oresult.value[1].refinement_responses = None

\* a SIMPLE execute returned the response of an escalated provider call
C13_Witness ==
    /\ Simple
    /\ OSucceeded
    /\ Len(calls) = 2
    /\ oresult.value[1].final_response.model = Some(escalated[1].name)

\* C14: every result returned in ADVERSARIAL mode has plan_response and
\* critique_response present and iterations equal to 1 + the number of
\* refinement_responses (0 when refinement_responses is absent).
C14_AdversarialResult ==
    (Adversarial /\ OSucceeded) =>
        /\ oresult.value[1].plan_response # None
        /\ oresult.value[1].critique_response # None
        /\ oresult.value[1].iterations = 1 + RefinementCount(oresult.value[1])

\* an ADVERSARIAL execute returned with two refinements and iterations 3
C14_Witness ==
    /\ Adversarial
    /\ OSucceeded
    /\ RefinementCount(oresult.value[1]) = 2
    /\ oresult.value[1].iterations = 3

\* C15: in a successful ADVERSARIAL execute the number of refinement
\* responses is max_refinement_iterations when enable_refinement is true and
\* max_refinement_iterations > 0, and zero, the field absent, otherwise; it
\* never exceeds max_refinement_iterations.
C15_RefinementCount ==
    /\ Adversarial => Len(refinement_responses) <= config.max_refinement_iterations
    /\ (Adversarial /\ OSucceeded) =>
          LET n == RefinementCount(oresult.value[1])
              r == oresult.value[1].refinement_responses
          IN  /\ r # None => r[1] = StepResponses("refine") /\ r[1] # <<>>
              /\ n <= config.max_refinement_iterations
              /\ n = IF /\ config.enable_refinement
                        /\ config.max_refinement_iterations > 0
                     THEN config.max_refinement_iterations
                     ELSE 0

\* an ADVERSARIAL execute with 2 iterations configured but refinement
\* disabled returned without refinement_responses
C15_Witness ==
    /\ Adversarial
    /\ OSucceeded
    /\ config.max_refinement_iterations = MaxRefinements
    /\ ~config.enable_refinement
    /\ oresult.value[1].refinement_responses = None

\* C16: in ADVERSARIAL mode final_response is the last refinement response
\* when at least one refinement was produced, and otherwise the response of
\* the Plan step.
C16_FinalResponse ==
    (Adversarial /\ OSucceeded) =>
        LET refinements == StepResponses("refine")
        IN  oresult.value[1].final_response =
                IF refinements # <<>>
                THEN refinements[Len(refinements)]
                ELSE StepResponses("plan")[1]

\* two refinements with different responses were produced, and the plan's
\* response differs from both
C16_Witness ==
    /\ Adversarial
    /\ OSucceeded
    /\ Len(StepResponses("refine")) = 2
    /\ StepResponses("refine")[1] # StepResponses("refine")[2]
    /\ StepResponses("plan")[1] # StepResponses("refine")[2]

\* C17: in ADVERSARIAL mode the plan_response field of the returned result is
\* the response produced by the Plan step, the first routing call of the
\* orchestration, also when refinements were produced; the summary's
\* initial_plan is that Plan step's content.
C17_PlanResponse ==
    (Adversarial /\ OSucceeded) =>
        /\ oresult.value[1].plan_response = Some(StepResponses("plan")[1])
        /\ summary # None
              => summary[1]["initial_plan"] = StepResponses("plan")[1].content

\* the step of the i-th routing call of an ADVERSARIAL execute
StepInOrder(i) ==
    IF i = 1 THEN "plan" ELSE IF i = 2 THEN "critique" ELSE "refine"

\* C18: within one ADVERSARIAL execute the routing calls happen in the order
\* plan, critique, refinement 1, ..., refinement n; each call starts only
\* after the previous one has returned; the critique call happens once; a
\* successful run makes 2 + n routing calls.
C18_StepsInSequence ==
    Adversarial =>
        /\ \A i \in 1..Len(rlog) : rlog[i].step = StepInOrder(i)
        /\ \A i \in 1..(Len(rlog) - 1) : rlog[i].result = "returned"
        /\ pc \in {"call1", "call2"} => rlog[Len(rlog)].result = "pending"
        /\ OSucceeded
              => /\ Len(rlog) = 2 + RefinementCount(oresult.value[1])
                 /\ rlog[Len(rlog)].result = "returned"
                 /\ Cardinality({i \in 1..Len(rlog) :
                                    rlog[i].step = "critique"}) = 1

\* the second refinement call is in progress at its provider, the plan, the
\* critique and the first refinement having returned
C18_Witness ==
    /\ Adversarial
    /\ Len(rlog) = 4
    /\ pc = "call1"
    /\ rlog[4].step = "refine"
    /\ rlog[4].result = "pending"
    /\ rlog[3].result = "returned"

\* C19: if a routing call of an orchestration (plan, critique or a
\* refinement) fails, execute fails with that same error, makes no routing or
\* provider call afterwards, and returns no OrchestrationResult.
C19_FailureAborts ==
    /\ \A i \in 1..Len(rlog) :
          rlog[i].result = "raised"
          => /\ i = Len(rlog)
             /\ opc = "done"
             /\ outcome.status = "raised"
             /\ oresult = ORaised(outcome.error, outcome.original)
             /\ oresult.value = None
             /\ summary = None
    /\ (opc # "idle" /\ outcome.status = "raised")
          => /\ pc = "done"
             /\ rlog[Len(rlog)].result # "returned"
             /\ \A k \in 1..Len(calls) : calls[k].result # "pending"

\* a refinement call failed after the plan and the critique had succeeded
C19_Witness ==
    /\ Adversarial
    /\ opc = "done"
    /\ Len(rlog) = 3
    /\ rlog[3].result = "raised"
    /\ plan_response # None
    /\ critique_response # None
    /\ oresult.status = "raised"

\* `part` is a contiguous piece of `text`
Embeds(text, part) ==
    \E k \in 0..(Len(text) - Len(part)) :
        SubSeq(text, k + 1, k + Len(part)) = part

\* C20: every refinement request of one orchestration embeds the content of
\* the single critique response unchanged; the draft in refinement 1 is the
\* Plan step's content and the draft in refinement k+1 is the content of
\* refinement k's response.
C20_RefinementDrafts ==
    Adversarial =>
        \A i \in 3..Len(rlog) :
            LET msgs == rlog[i].request.messages
                n == Len(orequest.messages)
                draft == IF i = 3 THEN rlog[1].response[1].content
                         ELSE rlog[i - 1].response[1].content
            IN  /\ Len(msgs) = n + 2
                /\ msgs[n + 1] = ChatMessage("assistant", draft)
                /\ msgs[n + 2].role = "user"
                /\ Embeds(msgs[n + 2].content, rlog[2].response[1].content)

\* a second refinement request went out whose draft, the first refinement's
\* content, is neither the plan's content nor the critique's
C20_Witness ==
    /\ Adversarial
    /\ Len(rlog) >= 4
    /\ rlog[4].request.messages[Len(orequest.messages) + 1].content
           = rlog[3].response[1].content
    /\ rlog[3].response[1].content # rlog[1].response[1].content
    /\ rlog[3].response[1].content # rlog[2].response[1].content

\* the caller's ChatRequest object as it is now: routing writes the model
\* field of the object it is handed
CallerRequest == IF handed = "caller" THEN request ELSE orequest

\* C21: an ADVERSARIAL execute never changes the caller's request, on success
\* and on failure; the plan request carries the original messages, and each
\* critique or refinement request carries the original messages followed by
\* exactly two more, an assistant and then a user message: messages do not
\* accumulate from one step to the next.
C21_CallerRequestKept ==
    Adversarial =>
        /\ CallerRequest = orequest
        /\ \A i \in 1..Len(rlog) :
              LET msgs == rlog[i].request.messages
                  n == Len(orequest.messages)
              IN  /\ SubSeq(msgs, 1, n) = orequest.messages
                  /\ i = 1 => Len(msgs) = n
                  /\ i > 1 => /\ Len(msgs) = n + 2
                              /\ msgs[n + 1].role = "assistant"
                              /\ msgs[n + 2].role = "user"

\* an ADVERSARIAL execute ended, two refinements made, and routing wrote a
\* model name into the request object of its last call while the caller's
\* request still names none
C21_Witness ==
    /\ Adversarial
    /\ opc = "done"
    /\ Len(rlog) = 4
    /\ orequest.model = None
    /\ request.model # None
    /\ CallerRequest.model = None

\* C22: execute with a config whose mode is neither SIMPLE nor ADVERSARIAL
\* fails with UnknownOrchestrationMode and makes no routing or provider call;
\* with no config given it uses the default config, which is SIMPLE.
C22_UnknownMode ==
    /\ (opc # "idle" /\ config.mode \notin {"simple", "adversarial"})
          => /\ opc = "done"
             /\ oresult = ORaised("UnknownOrchestrationMode", "")
             /\ rlog = <<>>
             /\ calls = <<>>
             /\ op = "none"
    /\ (opc # "idle" /\ config0 = None)
          => /\ config.mode = "simple"
             /\ rlog # <<>>
             /\ rlog[1].step = "simple"
             /\ rlog[1].request = orequest
             /\ OSucceeded => oresult.value[1].plan_response = None

\* an execute with a config of an unknown mode has failed
C22_Witness ==
    /\ opc = "done"
    /\ config0 # None
    /\ config0[1].mode = "other"
    /\ oresult.status = "raised"
    /\ oresult.error = "UnknownOrchestrationMode"

RECURSIVE SumProviderCalls(_)
SumProviderCalls(log) ==
    IF log = <<>> THEN 0
    ELSE Head(log).provider_calls + SumProviderCalls(Tail(log))

\* the provider calls made so far by the execute in progress: those of the
\* routing calls that have ended and those of the one in progress
ProviderCallsMade ==
    SumProviderCalls(rlog)
    + (IF rlog # <<>> /\ rlog[Len(rlog)].result = "pending"
       THEN Len(calls) ELSE 0)

ExecuteRunning == opc \in {"simple", "plan", "critique", "refine"}

\* C24: provided every provider call returns or fails, every execute call
\* eventually ends with a result or an error; it makes at most 2 provider
\* calls in SIMPLE mode and at most 2 * (2 + max_refinement_iterations) in
\* ADVERSARIAL mode.
C24_ExecuteEnds ==
    /\ [](Simple => ProviderCallsMade <= 2)
    /\ [](Adversarial =>
             ProviderCallsMade <= 2 * (2 + config.max_refinement_iterations))
    /\ (ExecuteRunning ~> (opc = "done" /\ oresult.status # "none"))

\* an ADVERSARIAL execute returned after every one of its routing calls had
\* escalated: 2 * (2 + max_refinement_iterations) provider calls
C24_Witness ==
    /\ Adversarial
    /\ OSucceeded
    /\ config.max_refinement_iterations = MaxRefinements
    /\ ProviderCallsMade = 2 * (2 + MaxRefinements)

RECURSIVE DecimalValue(_)
\* the number a sequence of decimal digits writes
DecimalValue(ds) ==
    IF ds = <<>> THEN 0
    ELSE 10 * DecimalValue(SubSeq(ds, 1, Len(ds) - 1))
         + (CHOOSE d \in 0..9 : Digits[d + 1] = ds[Len(ds)])

\* C26: create_adversarial_summary returns a mapping that always has
\* final_response and iterations (as text), has initial_plan exactly when
\* plan_response is present, critique exactly when critique_response is
\* present, and refinements exactly when refinement_responses is present and
\* non-empty, then the contents in the same order; it leaves the result
\* unchanged.
C26_Summary ==
    /\ [](summary # None =>
            LET s == summary[1]
                r == oresult.value[1]
                present == r.refinement_responses # None
                           /\ r.refinement_responses[1] # <<>>
            IN  /\ {"final_response", "iterations"} \subseteq DOMAIN s
                /\ DOMAIN s \subseteq {"final_response", "iterations",
                                       "initial_plan", "critique",
                                       "refinements"}
                /\ s["final_response"] = r.final_response.content
                /\ s["iterations"] # <<>>
                /\ DecimalValue(s["iterations"]) = r.iterations
                /\ "initial_plan" \in DOMAIN s <=> r.plan_response # None
                /\ r.plan_response # None
                      => s["initial_plan"] = r.plan_response[1].content
                /\ "critique" \in DOMAIN s <=> r.critique_response # None
                /\ r.critique_response # None
                      => s["critique"] = r.critique_response[1].content
                /\ "refinements" \in DOMAIN s <=> present
                /\ present
                      => /\ Len(s["refinements"])
                               = Len(r.refinement_responses[1])
                         /\ \A i \in 1..Len(s["refinements"]) :
                               s["refinements"][i]
                                   = r.refinement_responses[1][i].content)
    /\ [][summary' # summary => oresult' = oresult]_vars

\* a result with an empty refinement list, a critique and no plan was
\* summarised
C26_Witness ==
    /\ summary # None
    /\ oresult.value[1].refinement_responses = Some(<<>>)
    /\ oresult.value[1].plan_response = None
    /\ DOMAIN summary[1] = {"final_response", "iterations", "critique"}

-----------------------------------------------------------------------------
-----------------------------------------------------------------------------
(* the model catalog as its callers see it *)

\* the records list_models returns
Listed == list_models(models)

\* the registry holds a record under the name n
Registered(ms, n) == get_model(ms, n) # None

\* the value a dict of model data holds for a field
Field(data, f) == DictGet(data, f)[1]

\* C27: after any sequence of register_model, remove_model and import_models
\* no two records of list_models share a name, get_model(n) returns a record
\* whose name is n when it returns one, and register_model of an existing
\* name replaces the earlier record.
C27_NamesUnique ==
    /\ \A i, j \in 1..Len(Listed) : i # j => Listed[i].name # Listed[j].name
    /\ \A n \in RegistryNames :
          Registered(models, n) => get_model(models, n)[1].name = n
    /\ lastop.name = "register_model" =>
          /\ get_model(models, lastop.arg.name) = Some(lastop.arg)
          /\ Len(Listed) = Len(list_models(before.models))
                 + (IF Registered(before.models, lastop.arg.name) THEN 0 ELSE 1)

\* C28: remove_model(n) returns true exactly when n was registered;
\* afterwards get_model(n) is absent and every other model is as it was; a
\* second remove_model(n) returns false and changes nothing.
C28_RemoveModel ==
    /\ [](lastop.name = "remove_model" =>
            /\ ret.value = Registered(before.models, lastop.arg)
            /\ ~Registered(models, lastop.arg)
            /\ \A o \in RegistryNames \ {lastop.arg} :
                  get_model(models, o) = get_model(before.models, o)
            /\ Len(Listed) = Len(list_models(before.models))
                   - (IF ret.value THEN 1 ELSE 0)
            /\ target = before.target)
    /\ [][(/\ lastop.name = "remove_model"
           /\ lastop'.name = "remove_model"
           /\ lastop'.arg = lastop.arg)
          => (ret'.value = FALSE /\ models' = models /\ target' = target)]_vars

\* a model was removed from a registry of two, the other one staying
C28_Witness ==
    /\ lastop.name = "remove_model"
    /\ ret.value = TRUE
    /\ Len(list_models(before.models)) = 2
    /\ Len(Listed) = 1

\* C29: importing the output of export_models of one registry into another
\* makes get_model return, for every exported name, a record equal to the
\* exported one in its five fields, and leaves the models of other names in
\* the target as they were.
C29_ExportImport ==
    lastop.name = "import_exported" =>
        /\ \A i \in 1..Len(lastop.arg) :
              LET n == lastop.arg[i].key
                  exported == lastop.arg[i].val
                  got == get_model(target, n)
              IN  /\ got # None
                  /\ got = get_model(models, n)
                  /\ got[1].name = Field(exported, "name")
                  /\ got[1].provider = Field(exported, "provider")
                  /\ got[1].cost_per_1k_tokens = Field(exported, "cost_per_1k_tokens")
                  /\ got[1].context_size = Field(exported, "context_size")
                  /\ got[1].weight = Field(exported, "weight")
        /\ \A n \in RegistryNames \ Keys(lastop.arg) :
              get_model(target, n) = get_model(before.target, n)
        /\ Keys(lastop.arg) = { n \in RegistryNames : Registered(models, n) }

\* the export held a name the target knew with another record, and the
\* target held a name the export did not
C29_Witness ==
    /\ lastop.name = "import_exported"
    /\ \E n \in Keys(lastop.arg) :
          /\ Registered(before.target, n)
          /\ get_model(before.target, n) # get_model(models, n)
    /\ \E n \in RegistryNames \ Keys(lastop.arg) : Registered(target, n)

-----------------------------------------------------------------------------
(* the provider directory and the vault as their callers see them *)

\* the vault holds an API key for the provider named n
HoldsKeyFor(v, n) == v # None /\ vault_retrieve(v[1], VaultKey(n)) # None

\* C30: remove_provider(n) returns true exactly when n was registered;
\* afterwards get_provider(n) is absent and the vault holds no API key for n;
\* removing an unregistered name returns false and changes neither the
\* registry nor the vault.
C30_RemoveProvider ==
    lastop.name = "remove_provider" =>
        /\ ret.value = (get_provider(before.providers, lastop.arg) # None)
        /\ get_provider(providers, lastop.arg) = None
        /\ ret.value => ~HoldsKeyFor(vault, lastop.arg)
        /\ ~ret.value => (providers = before.providers /\ vault = before.vault)

\* a registered provider whose key was in the vault was removed, the other
\* provider's key staying in the vault
C30_Witness ==
    /\ lastop.name = "remove_provider"
    /\ ret.value = TRUE
    /\ HoldsKeyFor(before.vault, lastop.arg)
    /\ \E o \in ProviderNames \ {lastop.arg} : HoldsKeyFor(vault, o)

-----------------------------------------------------------------------------
(* two execute calls in two threads *)

\* the call of thread t has ended in the threaded run
Ended(t) ==
    /\ Len(alone) = 2
    /\ IF t = thread THEN opc = "done" ELSE parked.opc = "done"

\* what the call of thread t returned or raised in the threaded run
ThreadResult(t) == IF t = thread THEN oresult ELSE parked.oresult

\* C23: with the catalog and the directory fixed, in any interleaving of two
\* execute calls on requests of their own each call returns or raises what
\* it returns or raises when it runs alone.
C23_Interleaving ==
    \A t \in {1, 2} : Ended(t) => ThreadResult(t) = alone[t]

\* both calls have ended after a thread switch with both in progress, the two
\* calls differing in config and policy, one of them having escalated
C23_Witness ==
    /\ Ended(1)
    /\ Ended(2)
    /\ mixed
    /\ jobs[1].config # jobs[2].config
    /\ jobs[1].policy # jobs[2].policy
    /\ alone[1] # alone[2]
    /\ \E t \in {1, 2} : alone[t].status = "returned"
    /\ \E i \in 1..Len(rlog) : rlog[i].provider_calls = 2

-----------------------------------------------------------------------------
(* the vault as its callers see it *)

RECURSIVE LatestStore(_, _)
\* the value of the latest store(k, v) of the log that no delete(k) and no
\* clear follows, absent if there is none
LatestStore(log, k) ==
    IF log = <<>> THEN None
    ELSE LET last == log[Len(log)]
         IN  IF last.name = "clear" THEN None
             ELSE IF last.name = "delete" /\ last.arg = k THEN None
             ELSE IF last.name = "store" /\ last.arg.key = k
             THEN Some(last.arg.value)
             ELSE LatestStore(SubSeq(log, 1, Len(log) - 1), k)

\* C31: after any sequence of store, delete and clear on one vault,
\* retrieve(k) returns the value of the latest store(k, v) not followed by
\* delete(k) or clear, and absent otherwise; delete(k) returns true exactly
\* when k was present.
C31_VaultRetrieve ==
    /\ lastop.name = "retrieve" => ret.value = LatestStore(vlog, lastop.arg)
    /\ lastop.name = "delete" =>
          ret.value = (LatestStore(SubSeq(vlog, 1, Len(vlog) - 1),
                                   lastop.arg) # None)

-----------------------------------------------------------------------------
(* select_model's choice among equals *)

\* the place of a catalog model in the catalog's iteration order
CatalogIndex(m) == CHOOSE i \in 1..Len(models) : models[i].val = m

\* the sort key of the policy: weight when prefer_higher_weight, else cost
SortKey(m) ==
    IF policy.prefer_higher_weight THEN m.weight ELSE m.cost_per_1k_tokens

-----------------------------------------------------------------------------
(* the context estimate *)

\* the policy sets no minimum context size
NoMinimum == policy.min_context_size = None

\* C33: the estimated context of a request is floor(total characters of its
\* messages / 4) plus max_output_tokens when present, and the context filter
\* is skipped (every catalog model is left) exactly when the estimate is 0
\* and the policy sets no minimum; otherwise the models of
\* context_size >= max(minimum or 0, estimate) are left.
C33_Estimate ==
    lastop.name = "select_model" =>
        /\ ret.value.estimated = EstimatedContext(request)
        /\ { ret.value.candidates[i] : i \in 1..Len(ret.value.candidates) }
             = IF EstimatedContext(request) = 0 /\ NoMinimum
               THEN CatalogModels
               ELSE {m \in CatalogModels : PassesContext(m)}

\* two messages of 3 and 5 characters and one output token make an estimate
\* of 3, which leaves one model of the three
C33_Witness ==
    /\ lastop.name = "select_model"
    /\ Len(request.messages) = 2
    /\ SumLen(request.messages) = 8
    /\ request.max_tokens = Some(1)
    /\ NoMinimum
    /\ ret.value.estimated = 3
    /\ Len(ret.value.candidates) = 1

-----------------------------------------------------------------------------
(* the provider calls of one execute_with_routing *)

\* the i-th provider call of the execute_with_routing under way was made
Invoked(i) == Executing /\ Len(calls) >= i

\* C34: every model whose provider is invoked during execute_with_routing,
\* the initially selected one and the escalated one alike, has
\* context_size >= max(policy.min_context_size or 0, estimated context of
\* the request).
C34_InvokedContext ==
    /\ Invoked(1) => PassesContext(selected[1])
    /\ Invoked(2) => PassesContext(escalated[1])

\* the catalog's owner of a model name, if the catalog has the name
OwnerOf(name) == {m.provider : m \in {c \in CatalogModels : Some(c.name) = name}}

\* C35: whenever execute_with_routing invokes a provider, that provider is
\* the one the catalog records as owner of the model named in the request
\* passed to it, also when the request arrived with a pinned model.
C35_OwnerInvoked ==
    \A i \in 1..2 : Invoked(i) => calls[i].provider \in OwnerOf(calls[i].model)

\* C36: in an execute_with_routing call that escalates, the model name
\* carried by the request in the second (escalated) provider call differs
\* from the model name carried in the first, failed provider call, for
\* pinned and unpinned requests alike.
C36_EscalatedNameDiffers == Invoked(2) => calls[2].model # calls[1].model

\* C37: if execute_with_routing fails (ModelNotFound, ProviderNotFound,
\* ProviderCallFailed or EscalationExhausted), the caller's Request is the
\* same after the call as before it, model field included.
C37_FailureKeepsRequest ==
    (Executing /\ pc = "done" /\ outcome.status = "raised")
        => request = request0

-----------------------------------------------------------------------------
(* add_provider calls that fail *)

\* C38: a ProviderRegistry.add_provider call that fails (no API key
\* resolvable from argument, vault or environment, or unknown provider type)
\* leaves the set of registered providers and the contents of the vault as
\* they were before the call.
C38_FailedAddProvider ==
    (/\ lastop.name = "add_provider"
     /\ ret \in {Failed("NoApiKey"), Failed("UnknownProviderType")})
        => /\ providers = before.providers
           /\ vault = before.vault

-----------------------------------------------------------------------------
(* the admin routes *)

AdminRoutes ==
    {"POST /admin/providers", "GET /admin/providers", "POST /admin/models"}

\* the Authorization header is exactly 'Bearer ' followed by the admin
\* password
ExactlyBearerPassword(header) ==
    /\ header # None
    /\ Len(header[1]) = 7 + Len(AdminPassword)
    /\ \A i \in 1..7 : header[1][i] = Bearer[i]
    /\ \A i \in 1..Len(AdminPassword) : header[1][7 + i] = AdminPassword[i]

\* C39: a POST /admin/providers, GET /admin/providers or POST /admin/models
\* request whose Authorization header is not exactly 'Bearer ' followed by
\* the admin password is answered 401 and leaves the provider registry, the
\* model registry, the vault and the persisted data unchanged.
C39_Unauthorized ==
    (lastop.name \in AdminRoutes /\ ~ExactlyBearerPassword(lastop.arg.auth))
        => /\ ret.value.code = 401
           /\ providers = before.providers
           /\ models = before.models
           /\ vault = before.vault
           /\ db = before.db

\* a complete POST /admin/providers for a provider not yet registered came
\* with the Bearer scheme and the password cut short, after an authorised
\* request had registered another provider, and was answered 401
C39_Witness ==
    /\ lastop.name = "POST /admin/providers"
    /\ lastop.arg.auth = Some(Bearer \o <<"p">>)
    /\ lastop.arg.json # None
    /\ AllGiven(lastop.arg.json[1])
    /\ lastop.arg.json[1].provider_type = Some("mock")
    /\ lastop.arg.json[1].api_key = Some(<<107>>)
    /\ lastop.arg.json[1].name[1] \notin providers
    /\ providers # {}
    /\ db.vault_data # None
    /\ ret.value.code = 401

====
